---- MODULE Spec2Model ----
(***************************************************************************)
(* MyGarden cloud functions: the plant health classifier                   *)
(* (plant_health.compute_status, main.compute_status) and the hourly       *)
(* status job (jobs.update_all_plants_status_impl,                         *)
(* main._update_all_plants_status), the achievement levels and the         *)
(* achievement trigger (achievement_activities.compute_level,              *)
(* on_achievement_progress_written) and the push notifications with their  *)
(* retries (notifications.send_water_notification,                         *)
(* send_friend_request_notification_impl).                                 *)
(*                                                                         *)
(* Time.  Stored timestamps (lastWatered, previousLastWatered,             *)
(* healthySince) are epoch milliseconds in the program.  The model stores  *)
(* them in ticks of TickSeconds seconds (one tick = TickSeconds * 1000     *)
(* ms), and every clock reading is a whole number of ticks.  A datetime is *)
(* modelled as its number of seconds since the epoch.  Python floats are   *)
(* modelled as exact rationals <<numerator, denominator>> in lowest terms  *)
(* with a positive denominator.                                            *)
(***************************************************************************)
EXTENDS Integers, Sequences, FiniteSets, TLC

VARIABLES
    clock,      \* wall clock, in ticks (what datetime.now() reads)
    plants,     \* users/{uid}/plants/{pid}: plant id -> document
    streak,     \* users/{uid}/achievements/HEALTHY_STREAK: NoDoc or [value |-> ..]
    token,      \* users/{uid}.fcmToken: None or Some(token)
    pc,         \* status job: "idle", "running" or "done"
    run,        \* the current (or last) run of the status job
    notify_log, \* plant id -> the calls of send_water_notification made for it so far
    cs_in,      \* classifier under test: its arguments
    cs_now,     \* classifier under test: the clock, in ticks
    cs_out,     \* classifier under test: the status the last call returned
    cs_prev_out,\* classifier under test: the status the call before it returned
    cs_fresh,   \* classifier under test: cs_out was computed at cs_now
    cs_main_out,\* classifier under test: the status main.compute_status returned
    rc,         \* classifier called at two clock readings: times and statuses
    lv_thresholds, \* compute_level under test: the thresholds argument
    lv_value,   \* compute_level under test: the value argument
    lv_out,     \* compute_level under test: the level the last call returned
    lv_prev_out,\* compute_level under test: the level the call before it returned
    lv_fresh,   \* compute_level under test: lv_out was computed for lv_value
    ach_event,  \* the achievement write event that is being delivered
    ach_user,   \* users/{uid}: the user document as _get_user_pseudo reads it
    activities, \* users/{uid}/activities: the set of its documents
    ach_inflight, \* deliveries that have read the pseudo and not yet written
    ach_done,   \* number of deliveries whose handler has returned
    ach_wrote,  \* number of activity writes made by the deliveries
    ach_first,  \* the activity document ids when the first delivery returned
    ach_now,    \* wall clock of the achievement trigger, in ticks
    ach_fault,  \* where the last step of the trigger raised, None when it did not
    ach_escaped, \* an exception has left on_achievement_progress_written
    nt_call     \* the last notification call: function, arguments and result

jobVars == <<clock, plants, streak, token, pc, run, notify_log>>
csVars == <<cs_in, cs_now, cs_out, cs_prev_out, cs_fresh, cs_main_out>>
rcVars == <<rc>>
lvVars == <<lv_thresholds, lv_value, lv_out, lv_prev_out, lv_fresh>>
achVars == <<ach_event, ach_user, activities, ach_inflight, ach_done, ach_wrote,
             ach_first, ach_now, ach_fault, ach_escaped>>
ntVars == <<nt_call>>
extVars == <<rcVars, lvVars, achVars, ntVars>>
vars == <<jobVars, csVars, extVars>>

----------------------------------------------------------------------------
(* Optional values: Python None and a present value.                       *)
None == <<>>
Some(v) == <<v>>
Get(o) == o[1]

(* The parts of the state a specification does not use stay as they are    *)
(* here.                                                                   *)
RcQuiet == rc = None

LvQuiet ==
    /\ lv_thresholds = <<>>
    /\ lv_value = 0
    /\ lv_out = 0
    /\ lv_prev_out = 0
    /\ lv_fresh = FALSE

AchQuiet ==
    /\ ach_event = None
    /\ ach_user = None
    /\ activities = {}
    /\ ach_inflight = <<>>
    /\ ach_done = 0
    /\ ach_wrote = 0
    /\ ach_first = None
    /\ ach_now = 0
    /\ ach_fault = None
    /\ ach_escaped = FALSE

NtQuiet == nt_call = None

----------------------------------------------------------------------------
(* Bounds of the model.                                                     *)
MaxLast == 15       \* lastWatered of the classifier under test: 0..MaxLast ticks
MaxPrev == 2        \* previousLastWatered of the classifier under test: 0..MaxPrev
MaxFreq == 2        \* watering_frequency_days of the classifier under test: -1..MaxFreq
MaxNow == 45        \* clock of the classifier under test: 0..MaxNow ticks

(* The resolution of modelled time: a tick is 72 minutes, a twentieth of a *)
(* day, so that 5% of a one-day watering cycle is one tick.                *)
TickSeconds == 72 * 60
SecondsPerDay == 60 * 60 * 24
TicksPerDay == SecondsPerDay \div TickSeconds

----------------------------------------------------------------------------
(* Exact rational arithmetic standing for Python float arithmetic.         *)
RECURSIVE GCD(_, _)
GCD(a, b) == IF b = 0 THEN a ELSE GCD(b, a % b)

Abs(n) == IF n < 0 THEN 0 - n ELSE n

R(n, d) ==
    LET s == IF d < 0 THEN 0 - 1 ELSE 1
        g == GCD(Abs(n), Abs(d))
    IN  <<(s * n) \div g, (s * d) \div g>>

RInt(i) == <<i, 1>>
RSub(a, b) == R(a[1] * b[2] - b[1] * a[2], a[2] * b[2])
RMul(a, b) == R(a[1] * b[1], a[2] * b[2])
RDiv(a, b) == R(a[1] * b[2], a[2] * b[1])
RLt(a, b) == a[1] * b[2] < b[1] * a[2]
RLe(a, b) == a[1] * b[2] <= b[1] * a[2]
RMax(a, b) == IF RLt(a, b) THEN b ELSE a
RMin(a, b) == IF RLt(b, a) THEN b ELSE a

----------------------------------------------------------------------------
(* models.PlantHealthStatus                                                 *)
SEVERELY_OVERWATERED == "SEVERELY_OVERWATERED"
OVERWATERED == "OVERWATERED"
HEALTHY == "HEALTHY"
SLIGHTLY_DRY == "SLIGHTLY_DRY"
NEEDS_WATER == "NEEDS_WATER"
SEVERELY_DRY == "SEVERELY_DRY"
UNKNOWN == "UNKNOWN"
PlantHealthStatus ==
    {SEVERELY_OVERWATERED, OVERWATERED, HEALTHY, SLIGHTLY_DRY, NEEDS_WATER,
     SEVERELY_DRY, UNKNOWN}

(* constants.py *)
SEVERELY_OVERWATERED_MAX_THRESHOLD == RInt(30)
OVERWATERED_MAX_THRESHOLD == RInt(70)
HEALTHY_MAX_THRESHOLD == RInt(70)
SLIGHTLY_DRY_MAX_THRESHOLD == RInt(100)
NEEDS_WATER_MAX_THRESHOLD == RInt(130)
OVERWATER_STATE_RECOVERY_END_THRESHOLD == RInt(30)
OVERWATERING_SEVERITY_LEVEL_THRESHOLD == R(1, 2)

----------------------------------------------------------------------------
(* plant_health.py                                                          *)

(* _dt: stored timestamp (ticks) -> datetime (seconds since the epoch).    *)
dt(x) == IF x = None THEN None ELSE Some(Get(x) * TickSeconds)

(* datetime.now(timezone.utc) when the clock reads t ticks.                *)
datetime_now(t) == Some(t * TickSeconds)

(* _days: (b - a).total_seconds() / float(60 * 60 * 24)                    *)
days(a, b) == R(Get(b) - Get(a), SecondsPerDay)

(* Mutant: divides by y instead of y - x.                                   *)
relative_percentage_div_by_y(x, y, z) ==
    IF y = x THEN RInt(0)
    ELSE LET z_clamped == RMax(x, RMin(y, z))
         IN  RDiv(RSub(z_clamped, x), y)

(* _relative_percentage: normalize z in the interval [x, y] to [0, 1].     *)
relative_percentage(x, y, z) ==
    IF y = x THEN RInt(0)
    ELSE LET z_clamped == RMax(x, RMin(y, z))
         IN  RDiv(RSub(z_clamped, x), RSub(y, x))

dryness_pct(last, watering_frequency_days, now) ==
    RMul(RDiv(days(last, now), RInt(watering_frequency_days)), RInt(100))

(* interval_pct, or None when there is no previous watering.               *)
interval_pct(prev, last, watering_frequency_days) ==
    IF prev = None THEN None
    ELSE Some(RMul(RDiv(days(prev, last), RInt(watering_frequency_days)), RInt(100)))

(* Mutant: no severity between the two overwatering thresholds.           *)
starting_overwater_severity_no_interpolation(ipct) ==
    IF ipct = None THEN RInt(0)
    ELSE IF RLt(Get(ipct), SEVERELY_OVERWATERED_MAX_THRESHOLD) THEN RInt(1)
    ELSE RInt(0)

(* Mutant: the severity reaches 0 at a full cycle between the waterings.   *)
starting_overwater_severity_full_cycle(ipct) ==
    IF ipct = None THEN RInt(0)
    ELSE IF RLt(Get(ipct), SEVERELY_OVERWATERED_MAX_THRESHOLD) THEN RInt(1)
    ELSE IF RLt(Get(ipct), SLIGHTLY_DRY_MAX_THRESHOLD)
         THEN RSub(RInt(1), relative_percentage(SEVERELY_OVERWATERED_MAX_THRESHOLD,
                                                SLIGHTLY_DRY_MAX_THRESHOLD, Get(ipct)))
    ELSE RInt(0)

(* Mutant: full severity when there is no previous watering.               *)
starting_overwater_severity_default_one(ipct) ==
    IF ipct = None THEN RInt(1)
    ELSE IF RLt(Get(ipct), SEVERELY_OVERWATERED_MAX_THRESHOLD) THEN RInt(1)
    ELSE IF RLt(Get(ipct), OVERWATERED_MAX_THRESHOLD)
         THEN RSub(RInt(1), relative_percentage(SEVERELY_OVERWATERED_MAX_THRESHOLD,
                                                OVERWATERED_MAX_THRESHOLD, Get(ipct)))
    ELSE RInt(0)

starting_overwater_severity(ipct) ==
    IF ipct = None THEN RInt(0)
    ELSE IF RLt(Get(ipct), SEVERELY_OVERWATERED_MAX_THRESHOLD) THEN RInt(1)
    ELSE IF RLt(Get(ipct), OVERWATERED_MAX_THRESHOLD)
         THEN RSub(RInt(1), relative_percentage(SEVERELY_OVERWATERED_MAX_THRESHOLD,
                                                OVERWATERED_MAX_THRESHOLD, Get(ipct)))
    ELSE RInt(0)

(* Mutant: the decay grows with dryness (the "1.0 -" is missing).           *)
overwater_decay_inverted(dpct) ==
    RMax(RInt(0),
         RMin(RInt(1), RDiv(dpct, OVERWATER_STATE_RECOVERY_END_THRESHOLD)))

(* Mutant: the decay ends at 100% of the cycle instead of the recovery     *)
(* threshold.                                                               *)
overwater_decay_full_cycle(dpct) ==
    RMax(RInt(0), RMin(RInt(1), RSub(RInt(1), RDiv(dpct, RInt(100)))))

overwater_decay(dpct) ==
    RMax(RInt(0),
         RMin(RInt(1), RSub(RInt(1), RDiv(dpct, OVERWATER_STATE_RECOVERY_END_THRESHOLD))))

effective_overwater_severity(last, prev, watering_frequency_days, now) ==
    RMul(starting_overwater_severity(interval_pct(prev, last, watering_frequency_days)),
         overwater_decay(dryness_pct(last, watering_frequency_days, now)))

(* Mutant: exclusive upper bounds.                                          *)
dryness_ladder_exclusive(dpct) ==
    IF RLt(dpct, HEALTHY_MAX_THRESHOLD) THEN HEALTHY
    ELSE IF RLt(dpct, SLIGHTLY_DRY_MAX_THRESHOLD) THEN SLIGHTLY_DRY
    ELSE IF RLt(dpct, NEEDS_WATER_MAX_THRESHOLD) THEN NEEDS_WATER
    ELSE SEVERELY_DRY

dryness_ladder(dpct) ==
    IF RLe(dpct, HEALTHY_MAX_THRESHOLD) THEN HEALTHY
    ELSE IF RLe(dpct, SLIGHTLY_DRY_MAX_THRESHOLD) THEN SLIGHTLY_DRY
    ELSE IF RLe(dpct, NEEDS_WATER_MAX_THRESHOLD) THEN NEEDS_WATER
    ELSE SEVERELY_DRY

(* Mutant: the severity level threshold is compared with >=.               *)
classify_inclusive(last, prev, watering_frequency_days, now) ==
    LET eff == effective_overwater_severity(last, prev, watering_frequency_days, now)
    IN  IF RLt(RInt(0), eff)
        THEN IF RLe(OVERWATERING_SEVERITY_LEVEL_THRESHOLD, eff)
             THEN SEVERELY_OVERWATERED
             ELSE OVERWATERED
        ELSE dryness_ladder(dryness_pct(last, watering_frequency_days, now))

(* compute_status past its validation: last and watering_frequency_days    *)
(* are valid.                                                               *)
classify(last, prev, watering_frequency_days, now) ==
    LET eff == effective_overwater_severity(last, prev, watering_frequency_days, now)
    IN  IF RLt(RInt(0), eff)
        THEN IF RLt(OVERWATERING_SEVERITY_LEVEL_THRESHOLD, eff)
             THEN SEVERELY_OVERWATERED
             ELSE OVERWATERED
        ELSE dryness_ladder(dryness_pct(last, watering_frequency_days, now))

(* Mutant: invalid input is reported as HEALTHY.                           *)
compute_status_default_healthy(last_watered, watering_frequency_days, previous_last_watered, t) ==
    LET last == dt(last_watered)
        prev == IF previous_last_watered # None THEN dt(previous_last_watered) ELSE None
        now == datetime_now(t)
    IN  IF watering_frequency_days <= 0 \/ last = None
        THEN HEALTHY
        ELSE classify(last, prev, watering_frequency_days, now)

(* compute_status(last_watered, watering_frequency_days,                   *)
(* previous_last_watered), called when the clock reads t ticks.            *)
compute_status(last_watered, watering_frequency_days, previous_last_watered, t) ==
    LET last == dt(last_watered)
        prev == IF previous_last_watered # None THEN dt(previous_last_watered) ELSE None
        now == datetime_now(t)
    IN  IF watering_frequency_days <= 0 \/ last = None
        THEN UNKNOWN
        ELSE classify(last, prev, watering_frequency_days, now)

(* The copy of the classifier in main.py, with the thresholds, the helpers *)
(* and the enumeration that main.py defines for itself (the status names   *)
(* are the same strings as in models.py).                                  *)
MAIN_SEVERELY_OVERWATERED_MAX_THRESHOLD == RInt(30)
MAIN_OVERWATERED_MAX_THRESHOLD == RInt(70)
MAIN_HEALTHY_MAX_THRESHOLD == RInt(70)
MAIN_SLIGHTLY_DRY_MAX_THRESHOLD == RInt(100)
MAIN_NEEDS_WATER_MAX_THRESHOLD == RInt(130)
MAIN_OVERWATER_STATE_RECOVERY_END_THRESHOLD == RInt(30)
MAIN_OVERWATERING_SEVERITY_LEVEL_THRESHOLD == R(1, 2)

(* main._dt: seconds = x / 1000.0, datetime.fromtimestamp(seconds, utc)    *)
main_dt(x) == IF x = None THEN None ELSE Some(Get(x) * TickSeconds)

(* main._days *)
main_days(a, b) == R(Get(b) - Get(a), SecondsPerDay)

(* main._relative_percentage *)
main_relative_percentage(x, y, z) ==
    IF y = x THEN RInt(0)
    ELSE LET z_clamped == RMax(x, RMin(y, z))
         IN  RDiv(RSub(z_clamped, x), RSub(y, x))

(* Mutant: the copy in main.py has an exclusive HEALTHY bound.             *)
main_compute_status_exclusive_healthy(last_watered, watering_frequency_days, previous_last_watered, t) ==
    LET last == main_dt(last_watered)
        prev == IF previous_last_watered # None THEN main_dt(previous_last_watered) ELSE None
        now == datetime_now(t)
    IN
    IF watering_frequency_days <= 0 \/ last = None THEN UNKNOWN
    ELSE
    LET days_since == main_days(last, now)
        dpct == RMul(RDiv(days_since, RInt(watering_frequency_days)), RInt(100))
        ipct == IF prev # None
                THEN Some(RMul(RDiv(main_days(prev, last), RInt(watering_frequency_days)),
                               RInt(100)))
                ELSE None
        severity ==
            IF ipct = None THEN RInt(0)
            ELSE IF RLt(Get(ipct), MAIN_SEVERELY_OVERWATERED_MAX_THRESHOLD) THEN RInt(1)
            ELSE IF RLt(Get(ipct), MAIN_OVERWATERED_MAX_THRESHOLD)
                 THEN RSub(RInt(1),
                           main_relative_percentage(MAIN_SEVERELY_OVERWATERED_MAX_THRESHOLD,
                                                    MAIN_OVERWATERED_MAX_THRESHOLD, Get(ipct)))
            ELSE RInt(0)
        decay ==
            RMax(RInt(0),
                 RMin(RInt(1),
                      RSub(RInt(1), RDiv(dpct, MAIN_OVERWATER_STATE_RECOVERY_END_THRESHOLD))))
        eff == RMul(severity, decay)
    IN
    IF RLt(RInt(0), eff)
    THEN IF RLt(MAIN_OVERWATERING_SEVERITY_LEVEL_THRESHOLD, eff)
         THEN SEVERELY_OVERWATERED
         ELSE OVERWATERED
    ELSE IF RLt(dpct, MAIN_HEALTHY_MAX_THRESHOLD) THEN HEALTHY
    ELSE IF RLe(dpct, MAIN_SLIGHTLY_DRY_MAX_THRESHOLD) THEN SLIGHTLY_DRY
    ELSE IF RLe(dpct, MAIN_NEEDS_WATER_MAX_THRESHOLD) THEN NEEDS_WATER
    ELSE SEVERELY_DRY

(* main.compute_status, called when the clock reads t ticks.               *)
main_compute_status(last_watered, watering_frequency_days, previous_last_watered, t) ==
    LET last == main_dt(last_watered)
        prev == IF previous_last_watered # None THEN main_dt(previous_last_watered) ELSE None
        now == datetime_now(t)
    IN
    IF watering_frequency_days <= 0 \/ last = None THEN UNKNOWN
    ELSE
    LET days_since == main_days(last, now)
        dpct == RMul(RDiv(days_since, RInt(watering_frequency_days)), RInt(100))
        ipct == IF prev # None
                THEN Some(RMul(RDiv(main_days(prev, last), RInt(watering_frequency_days)),
                               RInt(100)))
                ELSE None
        severity ==
            IF ipct = None THEN RInt(0)
            ELSE IF RLt(Get(ipct), MAIN_SEVERELY_OVERWATERED_MAX_THRESHOLD) THEN RInt(1)
            ELSE IF RLt(Get(ipct), MAIN_OVERWATERED_MAX_THRESHOLD)
                 THEN RSub(RInt(1),
                           main_relative_percentage(MAIN_SEVERELY_OVERWATERED_MAX_THRESHOLD,
                                                    MAIN_OVERWATERED_MAX_THRESHOLD, Get(ipct)))
            ELSE RInt(0)
        decay ==
            RMax(RInt(0),
                 RMin(RInt(1),
                      RSub(RInt(1), RDiv(dpct, MAIN_OVERWATER_STATE_RECOVERY_END_THRESHOLD))))
        eff == RMul(severity, decay)
    IN
    IF RLt(RInt(0), eff)
    THEN IF RLt(MAIN_OVERWATERING_SEVERITY_LEVEL_THRESHOLD, eff)
         THEN SEVERELY_OVERWATERED
         ELSE OVERWATERED
    ELSE IF RLe(dpct, MAIN_HEALTHY_MAX_THRESHOLD) THEN HEALTHY
    ELSE IF RLe(dpct, MAIN_SLIGHTLY_DRY_MAX_THRESHOLD) THEN SLIGHTLY_DRY
    ELSE IF RLe(dpct, MAIN_NEEDS_WATER_MAX_THRESHOLD) THEN NEEDS_WATER
    ELSE SEVERELY_DRY

----------------------------------------------------------------------------
(* The document store the status job works on: one user with the plants    *)
(* PlantOrder (the order in which plants_ref.stream() yields them), the    *)
(* user's HEALTHY_STREAK achievement document and the user's fcmToken.     *)

PlantOrder == <<"p1", "p2">>
PlantIds == {PlantOrder[i] : i \in 1..Len(PlantOrder)}

(* A plant document.  Every field is None when the document lacks it;      *)
(* plant is None or Some of the nested plant map.                          *)
PlantDoc(id, last, prev, hs, name, freq, st) ==
    [id |-> id, lastWatered |-> last, previousLastWatered |-> prev,
     healthySince |-> hs,
     plant |-> Some([name |-> name, wateringFrequency |-> freq, healthStatus |-> st])]

NoMapDoc(id, last, prev, hs) ==
    [id |-> id, lastWatered |-> last, previousLastWatered |-> prev,
     healthySince |-> hs, plant |-> None]

EmptyDoc == NoMapDoc(None, None, None, None)

StoredStatuses == PlantHealthStatus \cup {"BOGUS"}

(* Job clock: the store's timestamps are past the epoch, so the clock      *)
(* starts at FirstClock and a run's now_ms is never 0.                     *)
FirstClock == 1
MaxClockSteps == 6  \* clock steps the model follows
MaxRunSteps == 1    \* clock steps that may pass during one run of the job
ClockStep == TicksPerDay \div 4
MaxClock == FirstClock + MaxClockSteps * ClockStep

(* Well-formed documents of plant pid, watered at FirstClock, with a      *)
(* one-day watering cycle.                                                  *)
GoodDoc(pid, prev, hs, st) ==
    PlantDoc(Some(pid), Some(FirstClock), prev, hs, Some("name"), Some(1), Some(st))

GoodDocs(pid, prevs, hss, sts) ==
    {GoodDoc(pid, prev, hs, st) : prev \in prevs, hs \in hss, st \in sts}

(* Documents with a missing or invalid field.                              *)
OddDocs(pid) ==
    { EmptyDoc,
      NoMapDoc(Some(pid), Some(FirstClock), None, Some(0)),
      PlantDoc(Some(pid), None, None, Some(0), Some("name"), Some(1), Some(HEALTHY)),
      PlantDoc(Some(pid), Some(FirstClock), None, Some(0), Some("name"), None, Some(HEALTHY)),
      PlantDoc(Some(pid), Some(FirstClock), None, Some(0), Some("name"), Some(1), None),
      PlantDoc(Some(pid), Some(FirstClock), None, Some(FirstClock), Some("name"), Some(0), Some(HEALTHY)),
      PlantDoc(None, Some(FirstClock), None, Some(FirstClock), Some("name"), Some(1), Some(HEALTHY)),
      PlantDoc(Some(pid), Some(FirstClock), None, Some(FirstClock), None, Some(1), Some(HEALTHY)) }

InitDocs(pid) ==
    IF pid = PlantOrder[1]
    THEN GoodDocs(pid, {None, Some(0)}, {None, Some(0), Some(FirstClock)}, StoredStatuses)
           \cup OddDocs(pid)
    ELSE { GoodDoc(pid, None, Some(FirstClock), HEALTHY),
           GoodDoc(pid, None, Some(0), NEEDS_WATER),
           GoodDoc(pid, None, None, HEALTHY) }

(* HEALTHY_STREAK: no document, a document without value, or a value.      *)
InitStreaks == {None, Some([value |-> None]), Some([value |-> Some(0)]), Some([value |-> Some(1)])}

InitTokens == {None, Some("token")}

----------------------------------------------------------------------------
(* notifications.py: the retry loops and the two notification functions    *)

MAX_RETRY_ATTEMPTS == 3

(* What one messaging.send call does: return, or raise UnregisteredError,  *)
(* QuotaExceededError / InternalError (transient), or another exception.   *)
SendOutcomes == {"ok", "unregistered", "transient", "other"}

(* The outcomes of the successive messaging.send calls that are made: a   *)
(* further call is made only after a transient error.                      *)
TransportOutcomes ==
    {outs \in UNION {[1..n -> SendOutcomes] : n \in 1..MAX_RETRY_ATTEMPTS} :
        /\ \A i \in 1..(Len(outs) - 1) : outs[i] = "transient"
        /\ Len(outs) < MAX_RETRY_ATTEMPTS => outs[Len(outs)] # "transient"}

BACKOFF_SECONDS == 1

RECURSIVE Pow2(_)
Pow2(n) == IF n = 0 THEN 1 ELSE 2 * Pow2(n - 1)

(* Mutant: the exponent is the attempt number.                             *)
backoff_delay_unshifted(attempt) ==
    IF BACKOFF_SECONDS * Pow2(attempt) < 8
    THEN BACKOFF_SECONDS * Pow2(attempt) ELSE 8

(* min(BACKOFF_SECONDS * (2 ** (attempt - 1)), 8), the seconds slept after *)
(* a failed attempt.                                                       *)
backoff_delay(attempt) ==
    IF BACKOFF_SECONDS * Pow2(attempt - 1) < 8
    THEN BACKOFF_SECONDS * Pow2(attempt - 1) ELSE 8

(* Mutant: every error but UnregisteredError is retried.                   *)
RECURSIVE send_loop_retry_on_other(_, _)
send_loop_retry_on_other(outs, attempt) ==
    IF outs[attempt] = "ok"
    THEN [attempts |-> attempt, ok |-> TRUE, deleteToken |-> FALSE, slept |-> <<>>]
    ELSE IF outs[attempt] = "unregistered"
         THEN [attempts |-> attempt, ok |-> FALSE, deleteToken |-> TRUE, slept |-> <<>>]
    ELSE IF outs[attempt] \in {"transient", "other"}
         THEN IF attempt < MAX_RETRY_ATTEMPTS
              THEN LET rest == send_loop_retry_on_other(outs, attempt + 1) IN
                   [rest EXCEPT !.slept = <<backoff_delay(attempt)>> \o rest.slept]
              ELSE [attempts |-> attempt, ok |-> FALSE, deleteToken |-> FALSE, slept |-> <<>>]
    ELSE [attempts |-> attempt, ok |-> FALSE, deleteToken |-> FALSE, slept |-> <<>>]

(* Mutant: the token is deleted on every non-retryable error.              *)
RECURSIVE send_loop_delete_on_other(_, _)
send_loop_delete_on_other(outs, attempt) ==
    IF outs[attempt] = "ok"
    THEN [attempts |-> attempt, ok |-> TRUE, deleteToken |-> FALSE, slept |-> <<>>]
    ELSE IF outs[attempt] = "unregistered"
         THEN [attempts |-> attempt, ok |-> FALSE, deleteToken |-> TRUE, slept |-> <<>>]
    ELSE IF outs[attempt] = "transient"
         THEN IF attempt < MAX_RETRY_ATTEMPTS
              THEN LET rest == send_loop_delete_on_other(outs, attempt + 1) IN
                   [rest EXCEPT !.slept = <<backoff_delay(attempt)>> \o rest.slept]
              ELSE [attempts |-> attempt, ok |-> FALSE, deleteToken |-> FALSE, slept |-> <<>>]
    ELSE [attempts |-> attempt, ok |-> FALSE, deleteToken |-> TRUE, slept |-> <<>>]

(* The retry loop of send_water_notification from attempt on: the number   *)
(* of attempts made, the value returned, whether fcmToken was deleted and  *)
(* the seconds slept between the attempts.                                 *)
RECURSIVE send_loop(_, _)
send_loop(outs, attempt) ==
    IF outs[attempt] = "ok"
    THEN [attempts |-> attempt, ok |-> TRUE, deleteToken |-> FALSE, slept |-> <<>>]
    ELSE IF outs[attempt] = "unregistered"
         THEN [attempts |-> attempt, ok |-> FALSE, deleteToken |-> TRUE, slept |-> <<>>]
    ELSE IF outs[attempt] = "transient"
         THEN IF attempt < MAX_RETRY_ATTEMPTS
              THEN LET rest == send_loop(outs, attempt + 1) IN
                   [rest EXCEPT !.slept = <<backoff_delay(attempt)>> \o rest.slept]
              ELSE [attempts |-> attempt, ok |-> FALSE, deleteToken |-> FALSE, slept |-> <<>>]
    ELSE [attempts |-> attempt, ok |-> FALSE, deleteToken |-> FALSE, slept |-> <<>>]

(* The retry loop of send_friend_request_notification_impl.                *)
RECURSIVE friend_send_loop(_, _)
friend_send_loop(outs, attempt) ==
    IF outs[attempt] = "ok"
    THEN [attempts |-> attempt, ok |-> TRUE, deleteToken |-> FALSE, slept |-> <<>>]
    ELSE IF outs[attempt] = "unregistered"
         THEN [attempts |-> attempt, ok |-> FALSE, deleteToken |-> TRUE, slept |-> <<>>]
    ELSE IF outs[attempt] = "transient"
         THEN IF attempt < MAX_RETRY_ATTEMPTS
              THEN LET rest == friend_send_loop(outs, attempt + 1) IN
                   [rest EXCEPT !.slept = <<backoff_delay(attempt)>> \o rest.slept]
              ELSE [attempts |-> attempt, ok |-> FALSE, deleteToken |-> FALSE, slept |-> <<>>]
    ELSE [attempts |-> attempt, ok |-> FALSE, deleteToken |-> FALSE, slept |-> <<>>]

(* _get_user_token: data.get("fcmToken") or None, which is returned when   *)
(* it is a string; the stored tokens are strings.                          *)
get_user_token(tok) == IF tok # None /\ Get(tok) # "" THEN tok ELSE None

(* send_friend_request_notification_impl(target_uid, from_pseudo) with the *)
(* stored token tok and the transport behaving as outs.                    *)
send_friend_request_notification_impl(tok, outs) ==
    IF get_user_token(tok) = None
    THEN [attempts |-> 0, ok |-> FALSE, deleteToken |-> FALSE, slept |-> <<>>]
    ELSE friend_send_loop(outs, 1)

(* send_water_notification(uid, plant_id, plant_name, new_status) with the *)
(* stored token tok and the transport behaving as outs: no attempt without *)
(* a token.                                                                 *)
send_water_notification(tok, outs) ==
    IF get_user_token(tok) = None
    THEN [attempts |-> 0, ok |-> FALSE, deleteToken |-> FALSE, slept |-> <<>>]
    ELSE send_loop(outs, 1)

(* The messaging.Message built for a plant.                                *)
water_message(plant_id, new_status, res) ==
    [type |-> "WATER_PLANT", plantId |-> plant_id, status |-> new_status,
     attempts |-> res.attempts, ok |-> res.ok]

----------------------------------------------------------------------------
(* jobs.py: update_all_plants_status_impl ("impl"), and its older copy     *)
(* main.py: _update_all_plants_status ("main").                            *)

Variants == {"impl", "main"}

(* int(x): truncation toward zero.                                          *)
RTrunc(a) == IF a[1] >= 0 THEN a[1] \div a[2] ELSE 0 - ((0 - a[1]) \div a[2])

(* now_ms = int(now.timestamp() * 1000), in ticks.                         *)
now_ms(now) == RTrunc(R(Get(now) * 1000, TickSeconds * 1000))

(* if not doc: continue *)
IsEmptyDoc(doc) ==
    /\ doc.id = None /\ doc.lastWatered = None /\ doc.previousLastWatered = None
    /\ doc.healthySince = None /\ doc.plant = None

(* The two "continue" guards on missing fields.                            *)
IsSkipped(doc) ==
    \/ IsEmptyDoc(doc)
    \/ doc.plant = None \/ doc.lastWatered = None
    \/ Get(doc.plant).wateringFrequency = None \/ Get(doc.plant).healthStatus = None

(* Mutant: no stored status is recognised.                                 *)
old_status_enum_never_parsed(old_status) == UNKNOWN

(* PlantHealthStatus(old_status), UNKNOWN on ValueError.                   *)
old_status_enum(old_status) ==
    IF old_status \in PlantHealthStatus THEN old_status ELSE UNKNOWN

(* Mutant: the value is set to the current streak whenever they differ.    *)
streak_step_overwrite(variant, streak_doc, healthy_since, now) ==
    IF streak_doc = None THEN [raised |-> FALSE, doc |-> streak_doc, wrote |-> FALSE]
    ELSE LET max_streak == Get(streak_doc).value IN
         IF healthy_since = Some(0) THEN [raised |-> FALSE, doc |-> streak_doc, wrote |-> FALSE]
         ELSE IF dt(healthy_since) = None THEN [raised |-> TRUE, doc |-> streak_doc, wrote |-> FALSE]
         ELSE LET current_streak == RTrunc(days(dt(healthy_since), now)) IN
              IF max_streak = None
              THEN [raised |-> (variant = "main"), doc |-> streak_doc, wrote |-> FALSE]
              ELSE IF current_streak # Get(max_streak)
                   THEN [raised |-> FALSE, doc |-> Some([value |-> Some(current_streak)]),
                         wrote |-> TRUE]
                   ELSE [raised |-> FALSE, doc |-> streak_doc, wrote |-> FALSE]

(* The healthy streak bookkeeping of one plant: whether it raises, the     *)
(* HEALTHY_STREAK document after it, and whether the document was written. *)
(* _days(_dt(None), now) raises TypeError; main.py also raises on          *)
(* current_streak > None.                                                  *)
streak_step_rewrite(variant, streak_doc, healthy_since, now) ==
    IF streak_doc = None THEN [raised |-> FALSE, doc |-> streak_doc, wrote |-> FALSE]
    ELSE LET max_streak == Get(streak_doc).value IN
         IF healthy_since = Some(0) THEN [raised |-> FALSE, doc |-> streak_doc, wrote |-> FALSE]
         ELSE IF dt(healthy_since) = None THEN [raised |-> TRUE, doc |-> streak_doc, wrote |-> FALSE]
         ELSE LET current_streak == RTrunc(days(dt(healthy_since), now)) IN
              IF max_streak = None
              THEN [raised |-> (variant = "main"), doc |-> streak_doc, wrote |-> FALSE]
              ELSE IF current_streak >= Get(max_streak)
                   THEN [raised |-> FALSE, doc |-> Some([value |-> Some(current_streak)]),
                         wrote |-> TRUE]
                   ELSE [raised |-> FALSE, doc |-> streak_doc, wrote |-> FALSE]

streak_step(variant, streak_doc, healthy_since, now) ==
    IF streak_doc = None THEN [raised |-> FALSE, doc |-> streak_doc, wrote |-> FALSE]
    ELSE LET max_streak == Get(streak_doc).value IN
         IF healthy_since = Some(0) THEN [raised |-> FALSE, doc |-> streak_doc, wrote |-> FALSE]
         ELSE IF dt(healthy_since) = None THEN [raised |-> TRUE, doc |-> streak_doc, wrote |-> FALSE]
         ELSE LET current_streak == RTrunc(days(dt(healthy_since), now)) IN
              IF max_streak = None
              THEN [raised |-> (variant = "main"), doc |-> streak_doc, wrote |-> FALSE]
              ELSE IF current_streak > Get(max_streak)
                   THEN [raised |-> FALSE, doc |-> Some([value |-> Some(current_streak)]),
                         wrote |-> TRUE]
                   ELSE [raised |-> FALSE, doc |-> streak_doc, wrote |-> FALSE]

is_healthy(status) == status \in {HEALTHY, SLIGHTLY_DRY}

(* Mutant: healthySince is not reset when the plant stops being healthy.   *)
healthy_since_update_never_reset(old_enum, new_status, healthy_since, nowms) ==
    IF ~is_healthy(old_enum) /\ is_healthy(new_status) THEN Some(nowms)
    ELSE healthy_since

(* Mutant: only HEALTHY counts as healthy.                                 *)
healthy_since_update_healthy_only(old_enum, new_status, healthy_since, nowms) ==
    IF old_enum # HEALTHY /\ new_status = HEALTHY THEN Some(nowms)
    ELSE IF old_enum = HEALTHY /\ new_status # HEALTHY THEN Some(0)
    ELSE healthy_since

(* The healthySince field after a status change from old_enum to           *)
(* new_status.                                                              *)
healthy_since_update(old_enum, new_status, healthy_since, nowms) ==
    LET was_healthy == is_healthy(old_enum)
        is_now_healthy == is_healthy(new_status)
    IN  IF ~was_healthy /\ is_now_healthy THEN Some(nowms)
        ELSE IF was_healthy /\ ~is_now_healthy THEN Some(0)
        ELSE healthy_since

(* Python truthiness of an optional string.                                *)
Truthy(x) == x # None /\ Get(x) # ""

(* Whether a changed plant is notified: jobs.py tests truthiness, main.py  *)
(* tests "is None".                                                        *)
should_notify(variant, new_status, doc) ==
    /\ new_status \in {NEEDS_WATER, SEVERELY_DRY}
    /\ IF variant = "impl"
       THEN Truthy(doc.id) /\ Truthy(Get(doc.plant).name)
       ELSE doc.id # None /\ Get(doc.plant).name # None

NoRun == None

(* The run that starts now repeats the run that has just returned: the     *)
(* same function, no time between them, and every evaluation of the        *)
(* returned run was made at this same time.                                *)
RepeatsLastRun(variant) ==
    /\ pc = "done"
    /\ Get(run).variant = variant
    /\ Get(run).started = clock
    /\ \A p \in PlantIds : Get(run).evalAt[p] \in {None, Some(clock)}

(* The scheduled function is triggered: lines up to the loop.              *)
JobStart(variant) ==
    /\ pc \in {"idle", "done"}
    /\ pc' = "running"
    /\ run' = Some([variant |-> variant,
                    started |-> clock,
                    repeat |-> RepeatsLastRun(variant),
                    now |-> datetime_now(clock),
                    idx |-> 1,
                    pre |-> plants,
                    preStreak |-> streak,
                    evalAt |-> [p \in PlantIds |-> None],
                    raised |-> {},
                    faulted |-> {},
                    writes |-> {},
                    notified |-> {},
                    sent |-> <<>>])
    /\ UNCHANGED <<clock, plants, streak, token, notify_log, csVars, extVars>>

(* The run after the plant at run.idx: the next plant, or the return.      *)
Advance(r, evalAt, raised, writes, notified, sent) ==
    Some([r EXCEPT !.idx = r.idx + 1,
                   !.evalAt = evalAt, !.raised = raised, !.writes = writes,
                   !.notified = notified, !.sent = sent])

PcAfter(r) == IF r.idx = Len(PlantOrder) THEN "done" ELSE "running"

(* One iteration of the loop over the plants: the try block for the plant  *)
(* at run.idx, the clock reading clock when compute_status is called.      *)
ProcessPlant ==
    /\ pc = "running"
    /\ LET r == Get(run)
           pid == PlantOrder[r.idx]
           doc == plants[pid]
       IN
       /\ pc' = PcAfter(r)
       /\ IF IsSkipped(doc)
          THEN /\ run' = Advance(r, r.evalAt, r.raised, r.writes, r.notified, r.sent)
               /\ UNCHANGED <<plants, streak, token, notify_log>>
          ELSE
          LET pm == Get(doc.plant)
              old == old_status_enum(Get(pm.healthStatus))
              new_status == IF r.variant = "main"
                            THEN main_compute_status(doc.lastWatered,
                                                     Get(pm.wateringFrequency),
                                                     doc.previousLastWatered, clock)
                            ELSE compute_status(doc.lastWatered, Get(pm.wateringFrequency),
                                                doc.previousLastWatered, clock)
              evalAt == [r.evalAt EXCEPT ![pid] = Some(clock)]
              st == streak_step(r.variant, streak, doc.healthySince, r.now)
              hs == healthy_since_update(old, new_status, doc.healthySince, now_ms(r.now))
              streakWrite == IF st.wrote THEN {<<"HEALTHY_STREAK", "value">>} ELSE {}
              statusWrite == {<<pid, "plant.healthStatus">>}
              hsWrite == IF is_healthy(old) # is_healthy(new_status)
                         THEN {<<pid, "healthySince">>} ELSE {}
          IN
          IF st.raised
          THEN /\ run' = Advance(r, evalAt, r.raised \cup {pid}, r.writes, r.notified, r.sent)
               /\ UNCHANGED <<plants, streak, token, notify_log>>
          ELSE
          /\ streak' = st.doc
          /\ IF old = new_status
             THEN /\ run' = Advance(r, evalAt, r.raised, r.writes \cup streakWrite,
                                    r.notified, r.sent)
                  /\ UNCHANGED <<plants, token, notify_log>>
             ELSE
             /\ plants' = [plants EXCEPT ![pid] =
                             [doc EXCEPT !.plant = Some([pm EXCEPT !.healthStatus = Some(new_status)]),
                                         !.healthySince = hs]]
             /\ IF should_notify(r.variant, new_status, doc)
                THEN \E outs \in TransportOutcomes :
                       LET res == send_water_notification(token, outs) IN
                       /\ token' = IF res.deleteToken THEN None ELSE token
                       /\ notify_log' = [notify_log EXCEPT ![pid] =
                                            Append(@, [status |-> new_status, ok |-> res.ok])]
                       /\ run' = Advance(r, evalAt, r.raised, r.writes \cup streakWrite \cup statusWrite \cup hsWrite,
                                         r.notified \cup {pid},
                                         IF res.attempts > 0
                                         THEN Append(r.sent, water_message(Get(doc.id), new_status, res))
                                         ELSE r.sent)
                ELSE /\ run' = Advance(r, evalAt, r.raised, r.writes \cup streakWrite \cup statusWrite \cup hsWrite,
                                       r.notified, r.sent)
                     /\ UNCHANGED <<token, notify_log>>
    /\ UNCHANGED <<clock, csVars, extVars>>

(* Time passes; the record of a finished run is dropped.                   *)
Tick ==
    /\ clock + ClockStep <= MaxClock
    /\ pc = "running" => clock < Get(run).started + MaxRunSteps * ClockStep
    /\ clock' = clock + ClockStep
    /\ IF pc = "done" THEN pc' = "idle" /\ run' = NoRun ELSE UNCHANGED <<pc, run>>
    /\ UNCHANGED <<plants, streak, token, notify_log, csVars, extVars>>

CsQuiet ==
    /\ cs_in = None
    /\ cs_now = 0
    /\ cs_out = "NoResult"
    /\ cs_prev_out = "NoResult"
    /\ cs_fresh = FALSE
    /\ cs_main_out = "NoResult"

Init ==
    /\ clock = FirstClock
    /\ plants \in [PlantIds -> UNION {InitDocs(p) : p \in PlantIds}]
    /\ \A p \in PlantIds : plants[p] \in InitDocs(p)
    /\ streak \in InitStreaks
    /\ token \in InitTokens
    /\ pc = "idle"
    /\ run = NoRun
    /\ notify_log = [p \in PlantIds |-> <<>>]
    /\ CsQuiet
    /\ RcQuiet /\ LvQuiet /\ AchQuiet /\ NtQuiet

Next ==
    \/ \E variant \in Variants : JobStart(variant)
    \/ ProcessPlant
    \/ Tick

Spec == Init /\ [][Next]_vars

(* The places of one iteration where the store or the messaging service    *)
(* may raise: plant_doc.to_dict(), the read of the HEALTHY_STREAK          *)
(* document, the update of plant.healthStatus, the update of healthySince  *)
(* and the call of send_water_notification (its token read or its token    *)
(* delete).                                                                 *)
FaultPoints == {"read", "streak", "status_write", "healthy_since_write", "notification"}

(* Faults are followed in the runs that start at the last clock reading or *)
(* up to MaxFaultSteps clock steps before it, when the plants have gone    *)
(* through the dry statuses in the runs before.                            *)
MaxFaultSteps == 0
FirstFaultClock == MaxClock - MaxFaultSteps * ClockStep

(* Mutant: the exception leaves the loop and the run ends.                 *)
on_plant_fault_propagates(r) == "done"

(* except Exception as e: logging.exception(...): the loop goes on with    *)
(* the plant after the one at run.idx.                                     *)
on_plant_fault(r) == PcAfter(r)

(* The run after a fault while the plant at run.idx was processed.         *)
Faulted(r, evalAt, writes) ==
    Some([r EXCEPT !.idx = r.idx + 1, !.evalAt = evalAt, !.writes = writes,
                   !.faulted = r.faulted \cup {PlantOrder[r.idx]}])

(* One iteration of the loop in which a store or messaging call raises at  *)
(* the given point: what was written before the point stays written.       *)
ProcessPlantFault(point) ==
    /\ pc = "running"
    /\ Get(run).started >= FirstFaultClock
    /\ LET r == Get(run)
           pid == PlantOrder[r.idx]
           doc == plants[pid]
       IN
       /\ pc' = on_plant_fault(r)
       /\ IF point = "read"
          THEN /\ run' = Faulted(r, r.evalAt, r.writes)
               /\ UNCHANGED <<plants, streak, token, notify_log>>
          ELSE
          /\ ~IsSkipped(doc)
          /\ LET pm == Get(doc.plant)
                 old == old_status_enum(Get(pm.healthStatus))
                 new_status == IF r.variant = "main"
                               THEN main_compute_status(doc.lastWatered,
                                                        Get(pm.wateringFrequency),
                                                        doc.previousLastWatered, clock)
                               ELSE compute_status(doc.lastWatered, Get(pm.wateringFrequency),
                                                   doc.previousLastWatered, clock)
                 evalAt == [r.evalAt EXCEPT ![pid] = Some(clock)]
                 st == streak_step(r.variant, streak, doc.healthySince, r.now)
                 hs == healthy_since_update(old, new_status, doc.healthySince, now_ms(r.now))
                 streakWrite == IF st.wrote THEN {<<"HEALTHY_STREAK", "value">>} ELSE {}
                 statusWrite == {<<pid, "plant.healthStatus">>}
                 hsWrite == {<<pid, "healthySince">>}
                 statusOnly == [doc EXCEPT !.plant = Some([pm EXCEPT !.healthStatus = Some(new_status)])]
             IN
             IF point = "streak"
             THEN /\ run' = Faulted(r, evalAt, r.writes)
                  /\ UNCHANGED <<plants, streak, token, notify_log>>
             ELSE
             /\ ~st.raised
             /\ old # new_status
             /\ streak' = st.doc
             /\ IF point = "status_write"
                THEN /\ run' = Faulted(r, evalAt, r.writes \cup streakWrite)
                     /\ UNCHANGED <<plants, token, notify_log>>
                ELSE IF point = "healthy_since_write"
                THEN /\ is_healthy(old) # is_healthy(new_status)
                     /\ plants' = [plants EXCEPT ![pid] = statusOnly]
                     /\ run' = Faulted(r, evalAt, r.writes \cup streakWrite \cup statusWrite)
                     /\ UNCHANGED <<token, notify_log>>
                ELSE /\ should_notify(r.variant, new_status, doc)
                     /\ plants' = [plants EXCEPT ![pid] = [statusOnly EXCEPT !.healthySince = hs]]
                     /\ notify_log' = [notify_log EXCEPT ![pid] =
                                          Append(@, [status |-> new_status, ok |-> FALSE])]
                     /\ run' = Faulted(r, evalAt,
                                       r.writes \cup streakWrite \cup statusWrite
                                           \cup (IF is_healthy(old) # is_healthy(new_status)
                                                 THEN hsWrite ELSE {}))
                     /\ UNCHANGED token
    /\ UNCHANGED <<clock, csVars, extVars>>

NextFaults ==
    \/ \E variant \in Variants : JobStart(variant)
    \/ ProcessPlant
    \/ \E point \in FaultPoints : ProcessPlantFault(point)
    \/ Tick

(* The documents the faulty runs start from: the first plant well formed,  *)
(* without healthySince or empty; a HEALTHY_STREAK document or none.       *)
FaultFirstDocs ==
    GoodDocs(PlantOrder[1], {None}, {None, Some(0), Some(FirstClock)},
             {HEALTHY, NEEDS_WATER, "BOGUS"}) \cup {EmptyDoc}

FaultStreaks == {None, Some([value |-> Some(0)])}

InitFaults ==
    /\ Init
    /\ plants[PlantOrder[1]] \in FaultFirstDocs
    /\ streak \in FaultStreaks

(* The status job with faults of the store and of the messaging service.   *)
SpecFaults == InitFaults /\ [][NextFaults]_vars

----------------------------------------------------------------------------
(* Claims about the status job.  They are stated on the state in which a   *)
(* run has returned (pc = "done"): run.pre is the store when the run       *)
(* started, plants the store now, run.evalAt[p] the clock reading of the   *)
(* compute_status call for plant p.                                        *)

StoredStatus(doc) == IF doc.plant = None THEN None ELSE Get(doc.plant).healthStatus
StoredHealthy(doc) == StoredStatus(doc) \in {Some(HEALTHY), Some(SLIGHTLY_DRY)}

(* The status the classifier computes for the plant document doc at clock  *)
(* reading t.                                                               *)
ComputedAt(doc, t) ==
    compute_status(doc.lastWatered, Get(Get(doc.plant).wateringFrequency),
                   doc.previousLastWatered, t)

(* C8: after a run, every plant that has lastWatered, a plant map,         *)
(* wateringFrequency and a healthStatus of the enumeration stores the      *)
(* status the classifier computes from its stored fields at the time of    *)
(* the run, whatever its other fields and the user's achievement           *)
(* documents; the status field is written only when the two differ.        *)
C8_StoredStatusIsComputed ==
    pc = "done" =>
      \A p \in PlantIds :
        LET pre == Get(run).pre[p] IN
        (~IsSkipped(pre) /\ Get(StoredStatus(pre)) \in PlantHealthStatus)
        => LET computed == ComputedAt(pre, Get(Get(run).evalAt[p])) IN
           /\ StoredStatus(plants[p]) = Some(computed)
           /\ <<p, "plant.healthStatus">> \in Get(run).writes
                => computed # Get(StoredStatus(pre))

(* C9: in a run, healthySince becomes the run's start time exactly when    *)
(* the plant's status changes from unhealthy to healthy (HEALTHY or        *)
(* SLIGHTLY_DRY), becomes 0 exactly when it changes from healthy to        *)
(* unhealthy, and is unchanged in every other case.                        *)
C9_HealthySince ==
    pc = "done" =>
      \A p \in PlantIds :
        LET pre == Get(run).pre[p]
            post == plants[p]
        IN  post.healthySince =
              (IF ~StoredHealthy(pre) /\ StoredHealthy(post) THEN Some(Get(run).started)
               ELSE IF StoredHealthy(pre) /\ ~StoredHealthy(post) THEN Some(0)
               ELSE pre.healthySince)

C9_Witness ==
    /\ pc = "done"
    /\ Get(run).started < clock
    /\ \E p \in PlantIds :
         /\ StoredStatus(Get(run).pre[p]) = Some(NEEDS_WATER)
         /\ StoredStatus(plants[p]) = Some(SLIGHTLY_DRY)
         /\ Get(run).pre[p].healthySince = Some(0)
         /\ plants[p].healthySince = Some(Get(run).started)

(* C10: in a run, send_water_notification is called for a plant exactly    *)
(* when its computed status differs from its stored status, the new status *)
(* is NEEDS_WATER or SEVERELY_DRY and the document has an id and a name;   *)
(* at most one message is sent per such plant, with that plant's id and    *)
(* type WATER_PLANT.                                                        *)
C10_NotifiedIffChangedToDry ==
    pc = "done" =>
      /\ \A p \in PlantIds :
           LET pre == Get(run).pre[p] IN
           IF IsSkipped(pre) THEN p \notin Get(run).notified
           ELSE LET computed == ComputedAt(pre, Get(Get(run).evalAt[p])) IN
                p \in Get(run).notified
                  <=> /\ Some(computed) # StoredStatus(pre)
                      /\ computed \in {NEEDS_WATER, SEVERELY_DRY}
                      /\ pre.id # None /\ Get(pre.plant).name # None
      /\ \A i \in 1..Len(Get(run).sent) :
           LET m == Get(run).sent[i] IN
           /\ m.type = "WATER_PLANT"
           /\ \E p \in Get(run).notified : Get(run).pre[p].id = Some(m.plantId)
           /\ \A j \in 1..Len(Get(run).sent) : Get(run).sent[j].plantId = m.plantId => j = i

(* C11: a second run of the status job over the store the first run left, *)
(* with the same evaluation time, is a no-op: it writes no plant status,   *)
(* no healthySince and no HEALTHY_STREAK value, it sends no notification,  *)
(* and the store after the two runs equals the store after the first.      *)
SameTimeRepeat ==
    /\ pc = "done"
    /\ Get(run).repeat
    /\ Get(run).started = clock

C11_SecondRunIsNoOp ==
    SameTimeRepeat =>
        /\ Get(run).writes = {}
        /\ Get(run).notified = {}
        /\ Get(run).sent = <<>>
        /\ plants = Get(run).pre
        /\ streak = Get(run).preStreak

(* A second run at the time of a first run that changed a status, sent     *)
(* nothing being left to do.                                               *)
C11_Witness ==
    /\ SameTimeRepeat
    /\ clock > FirstClock
    /\ \E p \in PlantIds :
          /\ Get(run).evalAt[p] = Some(clock)
          /\ plants[p].healthySince = Some(now_ms(Get(run).now))
    /\ streak # None

(* The marker: healthySince is 0 exactly for the plants whose stored       *)
(* status is neither HEALTHY nor SLIGHTLY_DRY.                             *)
Marker(docs) ==
    \A p \in PlantIds : (docs[p].healthySince = Some(0)) <=> ~StoredHealthy(docs[p])

(* C28: the status job preserves the marker: when every plant satisfies it *)
(* before a step of a run or of the clock, every plant satisfies it after  *)
(* the step, hence after any sequence of runs and time advances that       *)
(* starts with it.                                                         *)
C28_MarkerPreserved ==
    [][Marker(plants) => Marker(plants')]_vars

(* A run over a store with the marker in which one plant became healthy    *)
(* and another stopped being healthy.                                      *)
C28_Witness ==
    /\ pc = "done"
    /\ Marker(Get(run).pre)
    /\ Marker(plants)
    /\ \E p \in PlantIds :
         Get(run).pre[p].healthySince = Some(0) /\ plants[p].healthySince # Some(0)
    /\ \E p \in PlantIds :
         Get(run).pre[p].healthySince # Some(0) /\ plants[p].healthySince = Some(0)

(* The whole days between healthySince and the time of the run.            *)
StreakDays(doc, r) == (r.started - Get(doc.healthySince)) \div TicksPerDay

StreakPlants(r) ==
    {p \in PlantIds : /\ ~IsSkipped(r.pre[p])
                      /\ r.pre[p].healthySince # None
                      /\ r.pre[p].healthySince # Some(0)}

MaxOf(S) == CHOOSE m \in S : \A n \in S : n <= m

(* C29: a run never lowers HEALTHY_STREAK: after it the value is the       *)
(* maximum of the value before it and the whole days since healthySince    *)
(* (as stored before the run, when present and not 0) of the processed     *)
(* plants; a document without a value keeps none; when there is no         *)
(* HEALTHY_STREAK document the run creates none.                           *)
C29_StreakIsMax ==
    pc = "done" =>
        LET r == Get(run) IN
        IF r.preStreak = None THEN streak = None
        ELSE IF Get(r.preStreak).value = None THEN streak = r.preStreak
        ELSE /\ streak # None
             /\ Get(streak).value =
                   Some(MaxOf({Get(Get(r.preStreak).value)}
                                \cup {StreakDays(r.pre[p], r) : p \in StreakPlants(r)}))

C29_Witness ==
    /\ pc = "done"
    /\ Get(run).preStreak = Some([value |-> Some(0)])
    /\ streak = Some([value |-> Some(1)])
    /\ Get(run).raised = {}
    /\ \E p \in StreakPlants(Get(run)) : StreakDays(Get(run).pre[p], Get(run)) = 0

(* C21: a fault raised while one plant is processed (reading its fields,   *)
(* the streak bookkeeping, a store write, the notification) ends that      *)
(* plant's iteration only: the run goes through every plant, and every     *)
(* plant that has the needed fields and did not fault itself is evaluated, *)
(* stores the status computed from its own fields and the healthySince     *)
(* that follows from the change, and is notified exactly when its status   *)
(* changed to a dry one, as in a run without the fault.                    *)
C21_FaultIsolated ==
    pc = "done" =>
      LET r == Get(run) IN
      /\ r.idx = Len(PlantOrder) + 1
      /\ \A p \in PlantIds :
           LET pre == r.pre[p] IN
           (~IsSkipped(pre) /\ p \notin r.faulted) =>
             /\ r.evalAt[p] # None
             /\ p \notin r.raised =>
                  LET old == old_status_enum(Get(StoredStatus(pre)))
                      computed == ComputedAt(pre, Get(r.evalAt[p]))
                  IN  /\ StoredStatus(plants[p]) = Some(computed)
                      /\ plants[p].healthySince =
                           healthy_since_update(old, computed, pre.healthySince, r.started)
                      /\ p \in r.notified <=>
                           (old # computed /\ should_notify(r.variant, computed, pre))

(* The first plant faulted after its status was written; the second plant  *)
(* changed to a dry status and was notified.                               *)
C21_Witness ==
    /\ pc = "done"
    /\ Get(run).faulted = {PlantOrder[1]}
    /\ StoredStatus(plants[PlantOrder[1]]) # StoredStatus(Get(run).pre[PlantOrder[1]])
    /\ PlantOrder[2] \in Get(run).notified
    /\ StoredStatus(plants[PlantOrder[2]]) # StoredStatus(Get(run).pre[PlantOrder[2]])

(* C27: over any sequence of runs at increasing times, the watering fields *)
(* of a plant staying as they are, send_water_notification is called at    *)
(* most once for each dry status the plant enters, NEEDS_WATER and then    *)
(* SEVERELY_DRY, at most twice in all; a send that failed is not made      *)
(* again by a later run.                                                   *)
C27_OneNotificationPerDryStatus ==
    \A p \in DOMAIN notify_log :
        /\ Len(notify_log[p]) <= 2
        /\ \A i \in 1..Len(notify_log[p]) :
              notify_log[p][i].status \in {NEEDS_WATER, SEVERELY_DRY}
        /\ \A i, j \in 1..Len(notify_log[p]) :
              i < j => /\ notify_log[p][i].status = NEEDS_WATER
                       /\ notify_log[p][j].status = SEVERELY_DRY

(* The send for NEEDS_WATER failed; the next send is the one for           *)
(* SEVERELY_DRY, in a later run.                                           *)
C27_Witness ==
    /\ pc = "done"
    /\ \E p \in PlantIds :
         /\ Len(notify_log[p]) = 2
         /\ ~notify_log[p][1].ok
         /\ notify_log[p][1].status = NEEDS_WATER
         /\ notify_log[p][2].status = SEVERELY_DRY
         /\ p \in Get(run).notified

----------------------------------------------------------------------------
(* The classifier on its own: the arguments are drawn once, the clock      *)
(* advances, and compute_status is called at any clock reading.            *)

NoResult == "NoResult"
OptLast == {None} \cup {Some(t) : t \in 0..MaxLast}
OptPrev == {None} \cup {Some(t) : t \in 0..MaxPrev}
FreqSet == (0 - 1)..MaxFreq

JobQuiet ==
    /\ clock = 0
    /\ plants = <<>>
    /\ streak = None
    /\ token = None
    /\ pc = "idle"
    /\ run = None
    /\ notify_log = <<>>

InitClassify ==
    /\ JobQuiet
    /\ RcQuiet /\ LvQuiet /\ AchQuiet /\ NtQuiet
    /\ cs_in \in [last : OptLast, freq : FreqSet, prev : OptPrev]
    /\ cs_now = 0
    /\ cs_out = NoResult
    /\ cs_prev_out = NoResult
    /\ cs_fresh = FALSE
    /\ cs_main_out = NoResult

(* Time passes. *)
ClassifierTick ==
    /\ cs_now < MaxNow
    /\ cs_now' = cs_now + 1
    /\ cs_fresh' = FALSE
    /\ UNCHANGED <<cs_in, cs_out, cs_prev_out, cs_main_out, jobVars, extVars>>

(* One call of each copy of compute_status with the stored arguments. *)
Classify ==
    /\ cs_out' = compute_status(cs_in.last, cs_in.freq, cs_in.prev, cs_now)
    /\ cs_main_out' = main_compute_status(cs_in.last, cs_in.freq, cs_in.prev, cs_now)
    /\ cs_prev_out' = cs_out
    /\ cs_fresh' = TRUE
    /\ UNCHANGED <<cs_in, cs_now, jobVars, extVars>>

NextClassify == ClassifierTick \/ Classify

SpecClassify == InitClassify /\ [][NextClassify]_vars

----------------------------------------------------------------------------
(* Claims about the classifier.  D, I and Q are whole ticks:               *)
(* dryness_pct = 100 * D / Q and interval_pct = 100 * I / Q.               *)

CsValid == cs_in.freq > 0 /\ cs_in.last # None
CsD == cs_now - Get(cs_in.last)
CsI == Get(cs_in.last) - Get(cs_in.prev)
CsQ == cs_in.freq * TicksPerDay

(* C1: compute_status returns UNKNOWN whenever watering_frequency_days <= 0 *)
(* or last_watered is None, whatever previous_last_watered and the time.   *)
C1_InvalidIsUnknown ==
    (cs_fresh /\ (cs_in.freq <= 0 \/ cs_in.last = None)) => cs_out = UNKNOWN

C1_Witness ==
    /\ cs_fresh /\ cs_in.last = None /\ cs_in.freq > 0 /\ cs_in.prev # None
    /\ cs_now > 0 /\ cs_out = UNKNOWN

(* C2: with valid input and effective severity 0 the status follows the    *)
(* dryness ladder with inclusive upper bounds 70, 100 and 130.             *)
C2_Ladder ==
    (cs_fresh /\ CsValid
       /\ effective_overwater_severity(dt(cs_in.last), dt(cs_in.prev), cs_in.freq,
                                       datetime_now(cs_now)) = RInt(0))
    => /\ (cs_out = HEALTHY) <=> (100 * CsD <= 70 * CsQ)
       /\ (cs_out = SLIGHTLY_DRY) <=> (70 * CsQ < 100 * CsD /\ 100 * CsD <= 100 * CsQ)
       /\ (cs_out = NEEDS_WATER) <=> (100 * CsQ < 100 * CsD /\ 100 * CsD <= 130 * CsQ)
       /\ (cs_out = SEVERELY_DRY) <=> (100 * CsD > 130 * CsQ)

C2_Witness ==
    /\ cs_fresh /\ CsValid /\ cs_in.prev # None
    /\ 100 * CsD = 130 * CsQ /\ cs_out = NEEDS_WATER

(* C3: for fixed arguments with watering_frequency_days > 0, a later call  *)
(* never returns a status that is earlier in the sequence                  *)
(* SEVERELY_OVERWATERED, OVERWATERED, HEALTHY, SLIGHTLY_DRY, NEEDS_WATER,  *)
(* SEVERELY_DRY than the status an earlier call returned.                  *)
Rank(s) ==
    CASE s = SEVERELY_OVERWATERED -> 1
      [] s = OVERWATERED -> 2
      [] s = HEALTHY -> 3
      [] s = SLIGHTLY_DRY -> 4
      [] s = NEEDS_WATER -> 5
      [] s = SEVERELY_DRY -> 6
      [] OTHER -> 0

C3_Monotonic ==
    (CsValid /\ cs_prev_out # NoResult) => Rank(cs_prev_out) <= Rank(cs_out)

C3_Witness ==
    /\ CsValid /\ cs_prev_out = OVERWATERED /\ cs_out = SLIGHTLY_DRY

(* C4: once dryness_pct >= 30 the status is neither OVERWATERED nor        *)
(* SEVERELY_OVERWATERED, however short the interval between the waterings. *)
C4_DecayedAtRecovery ==
    (cs_fresh /\ CsValid /\ 100 * CsD >= 30 * CsQ)
    => cs_out \notin {OVERWATERED, SEVERELY_OVERWATERED}

C4_Witness ==
    /\ cs_fresh /\ CsValid /\ cs_in.prev # None /\ CsI = 0
    /\ 100 * CsD = 30 * CsQ /\ cs_out = HEALTHY

(* C5: without previous_last_watered the status is that of the dryness     *)
(* ladder alone, never OVERWATERED or SEVERELY_OVERWATERED, and HEALTHY    *)
(* when last_watered is the current time.                                  *)
C5_NoPreviousNoOverwatering ==
    (cs_fresh /\ CsValid /\ cs_in.prev = None)
    => /\ cs_out \notin {OVERWATERED, SEVERELY_OVERWATERED}
       /\ cs_out = (IF 100 * CsD <= 70 * CsQ THEN HEALTHY
                    ELSE IF 100 * CsD <= 100 * CsQ THEN SLIGHTLY_DRY
                    ELSE IF 100 * CsD <= 130 * CsQ THEN NEEDS_WATER
                    ELSE SEVERELY_DRY)
       /\ (CsD = 0 => cs_out = HEALTHY)

C5_Witness ==
    /\ cs_fresh /\ CsValid /\ cs_in.prev = None /\ CsD = 0 /\ cs_now > 0
    /\ cs_out = HEALTHY

(* C6: with interval_pct < 30 the status is SEVERELY_OVERWATERED exactly   *)
(* when dryness_pct < 15 and OVERWATERED exactly when 15 <= dryness_pct <  *)
(* 30.                                                                      *)
C6_FullSeverity ==
    (cs_fresh /\ CsValid /\ cs_in.prev # None /\ 100 * CsI < 30 * CsQ)
    => /\ (cs_out = SEVERELY_OVERWATERED) <=> (100 * CsD < 15 * CsQ)
       /\ (cs_out = OVERWATERED) <=> (15 * CsQ <= 100 * CsD /\ 100 * CsD < 30 * CsQ)

C6_Witness ==
    /\ cs_fresh /\ CsValid /\ cs_in.prev # None /\ 100 * CsI < 30 * CsQ
    /\ 100 * CsD = 15 * CsQ /\ cs_out = OVERWATERED

(* C7: with 30 <= interval_pct < 70 and dryness_pct < 30 the status is     *)
(* SEVERELY_OVERWATERED iff (1 - (interval_pct - 30) / 40) *               *)
(* clamp(1 - dryness_pct / 30, 0, 1) > 0.5 and OVERWATERED otherwise; with *)
(* interval_pct = 50 it is never SEVERELY_OVERWATERED.                     *)
(* In ticks: 2 * (70Q - 100I) * min(30Q, 30Q - 100D) > 40Q * 30Q.          *)
CsSevTimesDecay ==
    (70 * CsQ - 100 * CsI)
      * (IF CsD < 0 THEN 30 * CsQ ELSE 30 * CsQ - 100 * CsD)

C7_Interpolation ==
    (cs_fresh /\ CsValid /\ cs_in.prev # None)
    => /\ (30 * CsQ <= 100 * CsI /\ 100 * CsI < 70 * CsQ /\ 100 * CsD < 30 * CsQ)
          => cs_out = (IF 2 * CsSevTimesDecay > 40 * CsQ * 30 * CsQ
                       THEN SEVERELY_OVERWATERED ELSE OVERWATERED)
       /\ (100 * CsI = 50 * CsQ) => cs_out # SEVERELY_OVERWATERED

C7_Witness ==
    /\ cs_fresh /\ CsValid /\ cs_in.prev # None
    /\ 30 * CsQ < 100 * CsI /\ 100 * CsI < 70 * CsQ /\ CsD > 0
    /\ 2 * CsSevTimesDecay = 40 * CsQ * 30 * CsQ
    /\ cs_out = OVERWATERED

(* C25: for valid input compute_status returns OVERWATERED or             *)
(* SEVERELY_OVERWATERED exactly when previous_last_watered is present,     *)
(* interval_pct < 70 and dryness_pct < 30; in every other valid case it    *)
(* returns HEALTHY, SLIGHTLY_DRY, NEEDS_WATER or SEVERELY_DRY.             *)
CsOverwateredCase ==
    /\ cs_in.prev # None
    /\ 100 * CsI < 70 * CsQ
    /\ 100 * CsD < 30 * CsQ

C25_OverwateredIff ==
    (cs_fresh /\ CsValid) =>
        IF CsOverwateredCase
        THEN cs_out \in {OVERWATERED, SEVERELY_OVERWATERED}
        ELSE cs_out \in {HEALTHY, SLIGHTLY_DRY, NEEDS_WATER, SEVERELY_DRY}

(* A watering after 65% of the cycle, seen at 25% dryness.                 *)
C25_Witness ==
    /\ cs_fresh /\ CsValid /\ cs_in.prev # None
    /\ 100 * CsI = 65 * CsQ
    /\ 100 * CsD = 25 * CsQ
    /\ cs_out = OVERWATERED

(* C26: a previous_last_watered of 0 gives the status that an absent one   *)
(* gives, for every last_watered at least 0.7 * watering_frequency_days    *)
(* days after the epoch and every evaluation time.                         *)
C26_ZeroPreviousLikeAbsent ==
    (cs_fresh /\ cs_in.last # None /\ cs_in.prev = Some(0)
       /\ 10 * Get(cs_in.last) >= 7 * CsQ)
    => cs_out = compute_status(cs_in.last, cs_in.freq, None, cs_now)

(* The last watering exactly 0.7 cycles after the epoch.                   *)
C26_Witness ==
    /\ cs_fresh /\ CsValid /\ cs_in.prev = Some(0)
    /\ 10 * Get(cs_in.last) = 7 * CsQ
    /\ 100 * CsD < 30 * CsQ
    /\ cs_out = HEALTHY

(* C30: the two copies of the classifier agree: for every last_watered,   *)
(* watering_frequency_days, previous_last_watered and evaluation time,     *)
(* main.compute_status and plant_health.compute_status return the same     *)
(* status.                                                                 *)
C30_CopiesAgree ==
    cs_fresh => cs_main_out = cs_out

(* Both copies at the inclusive HEALTHY bound, and with full severity.     *)
C30_Witness ==
    /\ cs_fresh /\ CsValid /\ cs_in.prev = None
    /\ 100 * CsD = 70 * CsQ
    /\ cs_main_out = HEALTHY
    /\ cs_out = HEALTHY

----------------------------------------------------------------------------
(* The classifier called twice for the same stored fields, at two clock    *)
(* readings at most MaxGap ticks apart: a recomputation of the same plant. *)
MaxGap == 20

InitRecompute ==
    /\ JobQuiet
    /\ cs_in \in [last : OptLast, freq : FreqSet, prev : OptPrev]
    /\ cs_now = 0
    /\ cs_out = NoResult
    /\ cs_prev_out = NoResult
    /\ cs_fresh = FALSE
    /\ cs_main_out = NoResult
    /\ RcQuiet /\ LvQuiet /\ AchQuiet /\ NtQuiet

Recompute ==
    /\ rc = None
    /\ \E t1 \in 0..MaxNow :
         \E t2 \in t1..(IF t1 + MaxGap < MaxNow THEN t1 + MaxGap ELSE MaxNow) :
           rc' = Some([first |-> t1,
                       second |-> t2,
                       out1 |-> compute_status(cs_in.last, cs_in.freq, cs_in.prev, t1),
                       out2 |-> compute_status(cs_in.last, cs_in.freq, cs_in.prev, t2)])
    /\ UNCHANGED <<jobVars, csVars, lvVars, achVars, ntVars>>

NextRecompute == Recompute

SpecRecompute == InitRecompute /\ [][NextRecompute]_vars

WithinADay == rc # None /\ Get(rc).second - Get(rc).first < TicksPerDay

(* C12 as stated: for the same stored fields and two evaluation times less *)
(* than one day apart compute_status returns the same status.              *)
C12_SameStatusWithinADay ==
    WithinADay => Get(rc).out1 = Get(rc).out2

(* C12 amended: for the same stored fields and two evaluation times less   *)
(* than one day apart, the status at the later time is the status at the   *)
(* earlier time or one later in the sequence SEVERELY_OVERWATERED,         *)
(* OVERWATERED, HEALTHY, SLIGHTLY_DRY, NEEDS_WATER, SEVERELY_DRY; with     *)
(* invalid input both are UNKNOWN.                                         *)
C12_NeverEarlierWithinADay ==
    WithinADay =>
        /\ Rank(Get(rc).out1) <= Rank(Get(rc).out2)
        /\ (Get(rc).out1 = UNKNOWN) <=> (Get(rc).out2 = UNKNOWN)

(* One tick apart, the plant passes from HEALTHY to SLIGHTLY_DRY.          *)
C12_Witness ==
    /\ WithinADay
    /\ Get(rc).second = Get(rc).first + 1
    /\ Get(rc).out1 = HEALTHY
    /\ Get(rc).out2 = SLIGHTLY_DRY

----------------------------------------------------------------------------
(* Achievement levels (achievement_activities.py).                         *)
ACHIEVEMENT_THRESHOLDS ==
    [t \in {"PLANTS_NUMBER", "FRIENDS_NUMBER", "HEALTHY_STREAK"} |->
        CASE t = "PLANTS_NUMBER" -> <<1, 3, 5, 10, 15, 20, 30, 40, 50>>
          [] t = "FRIENDS_NUMBER" -> <<1, 3, 5, 10, 15, 20, 25, 30, 40>>
          [] t = "HEALTHY_STREAK" -> <<1, 3, 5, 7, 10, 20, 30, 40, 50>>]

ACHIEVEMENTS_LEVEL_NUMBER == 10

(* Mutant: the loop returns the index of the first threshold above the     *)
(* value instead of one more.                                              *)
compute_level_index_only(value, thresholds) ==
    LET above == {i \in 1..Len(thresholds) : value < thresholds[i]} IN
    IF above = {} THEN ACHIEVEMENTS_LEVEL_NUMBER
    ELSE (CHOOSE i \in above : \A j \in above : i <= j) - 1

(* Mutant: at or above the last threshold the level is one more than the   *)
(* number of thresholds instead of the maximum level.                      *)
compute_level_counted_end(value, thresholds) ==
    LET above == {i \in 1..Len(thresholds) : value < thresholds[i]} IN
    IF above = {} THEN 1 + Len(thresholds)
    ELSE 1 + ((CHOOSE i \in above : \A j \in above : i <= j) - 1)

(* compute_level: the loop returns 1 + i at the first threshold (0-based   *)
(* index i, here index i + 1) that the value is below, and the maximum     *)
(* level when there is none.                                               *)
compute_level(value, thresholds) ==
    LET above == {i \in 1..Len(thresholds) : value < thresholds[i]} IN
    IF above = {} THEN ACHIEVEMENTS_LEVEL_NUMBER
    ELSE 1 + ((CHOOSE i \in above : \A j \in above : i <= j) - 1)

(* compute_level on its own: an ascending threshold sequence is drawn      *)
(* once, the value grows, and the function is called again and again.      *)
MaxShortLen == 3
MaxShortThreshold == 5
MaxValue == 51
MinValue == 0 - 1
NoLevel == 0

IsAscending(seq) == \A i \in 1..(Len(seq) - 1) : seq[i] <= seq[i + 1]

ShortThresholds ==
    {seq \in UNION {[1..n -> 1..MaxShortThreshold] : n \in 0..MaxShortLen} :
        IsAscending(seq)}

LongThresholds == [i \in 1..(ACHIEVEMENTS_LEVEL_NUMBER + 1) |-> i]

ThresholdSeqs ==
    {ACHIEVEMENT_THRESHOLDS[t] : t \in DOMAIN ACHIEVEMENT_THRESHOLDS}
        \cup ShortThresholds \cup {LongThresholds}

InitLevel ==
    /\ JobQuiet /\ CsQuiet /\ RcQuiet /\ AchQuiet /\ NtQuiet
    /\ lv_thresholds \in ThresholdSeqs
    /\ lv_value = MinValue
    /\ lv_out = NoLevel
    /\ lv_prev_out = NoLevel
    /\ lv_fresh = FALSE

(* The progress value grows. *)
ValueUp ==
    /\ lv_value < MaxValue
    /\ lv_value' = lv_value + 1
    /\ lv_fresh' = FALSE
    /\ UNCHANGED <<lv_thresholds, lv_out, lv_prev_out>>
    /\ UNCHANGED <<jobVars, csVars, rcVars, achVars, ntVars>>

(* One call of compute_level. *)
ComputeLevel ==
    /\ lv_out' = compute_level(lv_value, lv_thresholds)
    /\ lv_prev_out' = lv_out
    /\ lv_fresh' = TRUE
    /\ UNCHANGED <<lv_thresholds, lv_value>>
    /\ UNCHANGED <<jobVars, csVars, rcVars, achVars, ntVars>>

NextLevel == ValueUp \/ ComputeLevel

SpecLevel == InitLevel /\ [][NextLevel]_vars

ReachedCount ==
    Cardinality({i \in 1..Len(lv_thresholds) : lv_value >= lv_thresholds[i]})

CappedCount ==
    IF 1 + ReachedCount < ACHIEVEMENTS_LEVEL_NUMBER
    THEN 1 + ReachedCount ELSE ACHIEVEMENTS_LEVEL_NUMBER

(* C14 as stated: for every ascending threshold sequence and every value,  *)
(* compute_level returns min(1 + number of thresholds the value has        *)
(* reached, ACHIEVEMENTS_LEVEL_NUMBER).                                    *)
C14_LevelIsCappedCount ==
    lv_fresh => lv_out = CappedCount

(* C14 amended: for every ascending sequence of exactly                    *)
(* ACHIEVEMENTS_LEVEL_NUMBER - 1 = 9 thresholds (the three configured      *)
(* sequences) and every value, compute_level returns min(1 + number of     *)
(* thresholds the value has reached, ACHIEVEMENTS_LEVEL_NUMBER).           *)
C14_NineThresholdsCappedCount ==
    (lv_fresh /\ Len(lv_thresholds) = ACHIEVEMENTS_LEVEL_NUMBER - 1)
        => lv_out = CappedCount

C14_Witness ==
    /\ lv_fresh
    /\ lv_thresholds = ACHIEVEMENT_THRESHOLDS["FRIENDS_NUMBER"]
    /\ lv_value = 25
    /\ lv_out = 8

(* C15: for every non-empty ascending threshold sequence, compute_level    *)
(* returns 1 below the first threshold, 1 + i at or above the i-th and     *)
(* below the (i+1)-th threshold, and ACHIEVEMENTS_LEVEL_NUMBER at or above *)
(* the last threshold.                                                     *)
C15_LevelByPosition ==
    (lv_fresh /\ Len(lv_thresholds) > 0) =>
        /\ lv_value < lv_thresholds[1] => lv_out = 1
        /\ \A i \in 1..(Len(lv_thresholds) - 1) :
              (lv_value >= lv_thresholds[i] /\ lv_value < lv_thresholds[i + 1])
                  => lv_out = 1 + i
        /\ lv_value >= lv_thresholds[Len(lv_thresholds)]
              => lv_out = ACHIEVEMENTS_LEVEL_NUMBER

C15_Witness ==
    /\ lv_fresh
    /\ lv_thresholds = <<1, 3, 5>>
    /\ lv_value = 5
    /\ lv_prev_out = 3
    /\ lv_out = ACHIEVEMENTS_LEVEL_NUMBER

(* C16: for every ascending threshold sequence, compute_level never        *)
(* returns a lower level for a larger value.                               *)
C16_LevelMonotonic ==
    lv_prev_out # NoLevel => lv_prev_out <= lv_out

----------------------------------------------------------------------------
(* The achievement trigger (on_achievement_progress_written).  A text is a *)
(* sequence of characters; a field of the user document is absent (None)   *)
(* or holds a value that is a string or not.                               *)
RECURSIVE lstrip(_)
lstrip(text) ==
    IF text # <<>> /\ Head(text) = " " THEN lstrip(Tail(text)) ELSE text

RECURSIVE rstrip(_)
rstrip(text) ==
    IF text # <<>> /\ text[Len(text)] = " "
    THEN rstrip(SubSeq(text, 1, Len(text) - 1)) ELSE text

(* str.strip() *)
strip(text) == rstrip(lstrip(text))

(* _get_user_pseudo: the pseudo as stored when it is a string that is not  *)
(* blank, None otherwise and when the user document does not exist.        *)
get_user_pseudo(user_doc) ==
    IF user_doc = None THEN None
    ELSE LET pseudo == Get(user_doc).pseudo IN
         IF pseudo # None /\ Get(pseudo).isStr /\ strip(Get(pseudo).text) # <<>>
         THEN Some(Get(pseudo).text)
         ELSE None

(* _activity_doc_id: f"ACHIEVEMENT_{achievement_type}_LEVEL_{level}", the  *)
(* formatted string given by its parts.                                    *)
activity_doc_id(achievement_type, level) ==
    <<"ACHIEVEMENT", achievement_type, "LEVEL", level>>

(* Mutant: a write is prepared whenever the value has grown, whatever the  *)
(* levels.                                                                 *)
achievement_activity_any_progress(event, user_doc) ==
    LET user_id == event.userId
        achievement_type == event.achievementType
    IN
    IF ~Truthy(user_id) \/ ~Truthy(achievement_type) THEN None
    ELSE IF Get(achievement_type) \notin DOMAIN ACHIEVEMENT_THRESHOLDS THEN None
    ELSE
    LET thresholds == ACHIEVEMENT_THRESHOLDS[Get(achievement_type)]
        before_snap == event.before
        after_snap == event.after
    IN
    IF after_snap = None THEN None
    ELSE
    LET before_raw == IF before_snap # None THEN Get(before_snap).value ELSE Some(0)
        after_raw == Get(after_snap).value
        before_value == IF before_raw = None THEN 0 ELSE Get(before_raw)
    IN
    IF after_raw = None THEN None
    ELSE IF Get(after_raw) <= before_value THEN None
    ELSE
    LET after_level == compute_level(Get(after_raw), thresholds)
        pseudo == get_user_pseudo(user_doc)
    IN
    IF pseudo = None THEN None
    ELSE Some([activity_id |-> activity_doc_id(Get(achievement_type), after_level),
               user_id |-> Get(user_id),
               pseudo |-> Get(pseudo),
               achievement_type |-> Get(achievement_type),
               after_level |-> after_level])

(* Mutant: the activity is the one of the level after the level before.   *)
achievement_activity_next_level(event, user_doc) ==
    LET user_id == event.userId
        achievement_type == event.achievementType
    IN
    IF ~Truthy(user_id) \/ ~Truthy(achievement_type) THEN None
    ELSE IF Get(achievement_type) \notin DOMAIN ACHIEVEMENT_THRESHOLDS THEN None
    ELSE
    LET thresholds == ACHIEVEMENT_THRESHOLDS[Get(achievement_type)]
        before_snap == event.before
        after_snap == event.after
    IN
    IF after_snap = None THEN None
    ELSE
    LET before_raw == IF before_snap # None THEN Get(before_snap).value ELSE Some(0)
        after_raw == Get(after_snap).value
        before_value == IF before_raw = None THEN 0 ELSE Get(before_raw)
    IN
    IF after_raw = None THEN None
    ELSE IF Get(after_raw) <= before_value THEN None
    ELSE
    LET before_level == compute_level(before_value, thresholds)
        after_level == compute_level(Get(after_raw), thresholds)
    IN
    IF after_level <= before_level THEN None
    ELSE
    LET pseudo == get_user_pseudo(user_doc) IN
    IF pseudo = None THEN None
    ELSE Some([activity_id |-> activity_doc_id(Get(achievement_type), before_level + 1),
               user_id |-> Get(user_id),
               pseudo |-> Get(pseudo),
               achievement_type |-> Get(achievement_type),
               after_level |-> before_level + 1])

(* The handler up to the write: None when it returns without writing,      *)
(* otherwise the document id and the fields it is about to set.            *)
achievement_activity(event, user_doc) ==
    LET user_id == event.userId
        achievement_type == event.achievementType
    IN
    IF ~Truthy(user_id) \/ ~Truthy(achievement_type) THEN None
    ELSE IF Get(achievement_type) \notin DOMAIN ACHIEVEMENT_THRESHOLDS THEN None
    ELSE
    LET thresholds == ACHIEVEMENT_THRESHOLDS[Get(achievement_type)]
        before_snap == event.before
        after_snap == event.after
    IN
    IF after_snap = None THEN None
    ELSE
    LET before_raw == IF before_snap # None THEN Get(before_snap).value ELSE Some(0)
        after_raw == Get(after_snap).value
        before_value == IF before_raw = None THEN 0 ELSE Get(before_raw)
    IN
    IF after_raw = None THEN None
    ELSE IF Get(after_raw) <= before_value THEN None
    ELSE
    LET before_level == compute_level(before_value, thresholds)
        after_level == compute_level(Get(after_raw), thresholds)
    IN
    IF after_level <= before_level THEN None
    ELSE
    LET pseudo == get_user_pseudo(user_doc) IN
    IF pseudo = None THEN None
    ELSE Some([activity_id |-> activity_doc_id(Get(achievement_type), after_level),
               user_id |-> Get(user_id),
               pseudo |-> Get(pseudo),
               achievement_type |-> Get(achievement_type),
               after_level |-> after_level])

ActivityIds(acts) == {d.id : d \in acts}

(* Mutant: the document is added under a generated id.                     *)
doc_add(acts, id, data) ==
    acts \cup {[id |-> <<"auto", Cardinality(acts)>>, data |-> data]}

(* DocumentReference.set(data, merge=True): the fields of data replace the *)
(* fields of the same names in the document of that id, which is created   *)
(* when missing; the activity documents have no other fields.              *)
doc_set(acts, id, data) ==
    {d \in acts : d.id # id} \cup {[id |-> id, data |-> data]}

MaxDeliveries == 3
MaxAchNow == 1
MaxProgress == 5

ProgressSnapshots ==
    {None, Some([value |-> None])}
        \cup {Some([value |-> Some(v)]) : v \in (0 - 1)..MaxProgress}

AchievementEvents ==
    [userId : {None, Some("u1")},
     achievementType : {None} \cup {Some(t) : t \in DOMAIN ACHIEVEMENT_THRESHOLDS
                                                        \cup {"NOT_A_REAL_TYPE"}},
     before : ProgressSnapshots,
     after : ProgressSnapshots]

PseudoFields ==
    {None,
     Some([isStr |-> FALSE, text |-> <<"4", "2">>]),
     Some([isStr |-> TRUE, text |-> <<>>]),
     Some([isStr |-> TRUE, text |-> <<" ", " ">>]),
     Some([isStr |-> TRUE, text |-> <<"A", "d", "a">>]),
     Some([isStr |-> TRUE, text |-> <<" ", "A", " ">>])}

UserDocs == {None} \cup {Some([pseudo |-> f]) : f \in PseudoFields}

InitAchieve ==
    /\ JobQuiet /\ CsQuiet /\ RcQuiet /\ LvQuiet /\ NtQuiet
    /\ ach_event \in {Some(e) : e \in AchievementEvents}
    /\ ach_user \in UserDocs
    /\ activities = {}
    /\ ach_inflight = <<>>
    /\ ach_done = 0
    /\ ach_wrote = 0
    /\ ach_first = None
    /\ ach_now = 0
    /\ ach_fault = None
    /\ ach_escaped = FALSE

(* One delivery of the event: the handler up to and including the read of  *)
(* the user document.  It returns, or it is left about to write.           *)
Deliver ==
    /\ ach_done + Len(ach_inflight) < MaxDeliveries
    /\ LET act == achievement_activity(Get(ach_event), ach_user) IN
       IF act = None
       THEN /\ ach_done' = ach_done + 1
            /\ ach_first' = IF ach_first = None THEN Some(ActivityIds(activities))
                            ELSE ach_first
            /\ UNCHANGED <<ach_inflight, activities, ach_wrote>>
       ELSE /\ ach_inflight' = Append(ach_inflight, Get(act))
            /\ UNCHANGED <<ach_done, ach_first, activities, ach_wrote>>
    /\ UNCHANGED <<ach_event, ach_user, ach_now, ach_escaped>>
    /\ ach_fault' = None
    /\ UNCHANGED <<jobVars, csVars, rcVars, lvVars, ntVars>>

(* A delivery that is about to write reads the clock, sets the activity    *)
(* document and returns.                                                   *)
WriteActivity ==
    /\ \E i \in 1..Len(ach_inflight) :
         LET a == ach_inflight[i]
             created_time == now_ms(datetime_now(ach_now))
         IN
         /\ activities' = doc_set(activities, a.activity_id,
                                  [type |-> "ACHIEVEMENT",
                                   userId |-> a.user_id,
                                   pseudo |-> a.pseudo,
                                   achievementType |-> a.achievement_type,
                                   levelReached |-> a.after_level,
                                   createdAt |-> created_time])
         /\ ach_inflight' = SubSeq(ach_inflight, 1, i - 1)
                              \o SubSeq(ach_inflight, i + 1, Len(ach_inflight))
         /\ ach_first' = IF ach_first = None THEN Some(ActivityIds(activities'))
                         ELSE ach_first
    /\ ach_wrote' = ach_wrote + 1
    /\ ach_done' = ach_done + 1
    /\ UNCHANGED <<ach_event, ach_user, ach_now, ach_escaped>>
    /\ ach_fault' = None
    /\ UNCHANGED <<jobVars, csVars, rcVars, lvVars, ntVars>>

(* Time passes. *)
AchTick ==
    /\ ach_now < MaxAchNow
    /\ ach_now' = ach_now + 1
    /\ UNCHANGED <<ach_event, ach_user, activities, ach_inflight, ach_done, ach_wrote,
                   ach_first, ach_escaped>>
    /\ ach_fault' = None
    /\ UNCHANGED <<jobVars, csVars, rcVars, lvVars, ntVars>>

NextAchieve == Deliver \/ WriteActivity \/ AchTick

SpecAchieve == InitAchieve /\ [][NextAchieve]_vars

(* The places where a delivery may raise: the accesses to the event, the   *)
(* read of the user document in _get_user_pseudo, activity_ref.set.        *)
AchFaultPoints == {"event", "pseudo", "write"}

(* Mutant: the try block starts after the event has been read.             *)
handler_catches_after_event(point) == point # "event"

(* try: ... except Exception: logging.exception(...) around the whole body *)
(* of the handler: a fault raised at any point of it is caught.            *)
handler_catches(point) == TRUE

(* A user document with a pseudo, to tell whether the handler gets as far  *)
(* as _get_user_pseudo for an event.                                       *)
ReadableUser == Some([pseudo |-> Some([isStr |-> TRUE, text |-> <<"A">>])])
reads_pseudo(event) == achievement_activity(event, ReadableUser) # None

(* One delivery of the event in which an access to the event or the read   *)
(* of the user document raises: the handler ends there.                    *)
DeliverFault(point) ==
    /\ ach_done + Len(ach_inflight) < MaxDeliveries
    /\ point = "pseudo" => reads_pseudo(Get(ach_event))
    /\ ach_done' = ach_done + 1
    /\ ach_first' = IF ach_first = None THEN Some(ActivityIds(activities)) ELSE ach_first
    /\ ach_fault' = Some(point)
    /\ ach_escaped' = (ach_escaped \/ ~handler_catches(point))
    /\ UNCHANGED <<ach_event, ach_user, ach_now, ach_inflight, activities, ach_wrote>>
    /\ UNCHANGED <<jobVars, csVars, rcVars, lvVars, ntVars>>

(* A delivery that is about to write calls activity_ref.set, which raises: *)
(* the store has applied the write or it has not.                          *)
WriteActivityFault ==
    /\ \E i \in 1..Len(ach_inflight), applied \in BOOLEAN :
         LET a == ach_inflight[i]
             created_time == now_ms(datetime_now(ach_now))
         IN
         /\ activities' = IF applied
                          THEN doc_set(activities, a.activity_id,
                                       [type |-> "ACHIEVEMENT",
                                        userId |-> a.user_id,
                                        pseudo |-> a.pseudo,
                                        achievementType |-> a.achievement_type,
                                        levelReached |-> a.after_level,
                                        createdAt |-> created_time])
                          ELSE activities
         /\ ach_inflight' = SubSeq(ach_inflight, 1, i - 1)
                              \o SubSeq(ach_inflight, i + 1, Len(ach_inflight))
         /\ ach_first' = IF ach_first = None THEN Some(ActivityIds(activities'))
                         ELSE ach_first
    /\ ach_done' = ach_done + 1
    /\ ach_fault' = Some("write")
    /\ ach_escaped' = (ach_escaped \/ ~handler_catches("write"))
    /\ UNCHANGED <<ach_event, ach_user, ach_now, ach_wrote>>
    /\ UNCHANGED <<jobVars, csVars, rcVars, lvVars, ntVars>>

NextAchieveFaults ==
    \/ NextAchieve
    \/ \E point \in AchFaultPoints \ {"write"} : DeliverFault(point)
    \/ WriteActivityFault

(* The trigger with faults of the event and of the store.                  *)
SpecAchieveFaults == InitAchieve /\ [][NextAchieveFaults]_vars

(* The conditions of a write, read off the event and the user document.    *)
EvType == Get(ach_event).achievementType
EvConfigured == EvType # None /\ Get(EvType) \in DOMAIN ACHIEVEMENT_THRESHOLDS
EvAfterHasValue ==
    Get(ach_event).after # None /\ Get(Get(ach_event).after).value # None
EvAfterValue == Get(Get(Get(ach_event).after).value)
EvBeforeValue ==
    IF Get(ach_event).before = None \/ Get(Get(ach_event).before).value = None
    THEN 0 ELSE Get(Get(Get(ach_event).before).value)
EvUserHasPseudo ==
    /\ Get(ach_event).userId # None
    /\ ach_user # None
    /\ Get(ach_user).pseudo # None
    /\ Get(Get(ach_user).pseudo).isStr
    /\ \E i \in 1..Len(Get(Get(ach_user).pseudo).text) :
          Get(Get(ach_user).pseudo).text[i] # " "
EvNewLevel ==
    /\ EvConfigured
    /\ EvAfterHasValue
    /\ EvAfterValue > EvBeforeValue
    /\ compute_level(EvAfterValue, ACHIEVEMENT_THRESHOLDS[Get(EvType)])
         > compute_level(EvBeforeValue, ACHIEVEMENT_THRESHOLDS[Get(EvType)])
    /\ EvUserHasPseudo

(* C17: a delivery of the event writes an activity document exactly when   *)
(* the achievement type is configured, the after snapshot exists and has a *)
(* value, that value is greater than the before value (0 when the before   *)
(* snapshot is absent or has no value), compute_level of the after value   *)
(* is greater than compute_level of the before value, and the user of the  *)
(* event has a pseudo that is a non-blank string; in every other case the  *)
(* handler returns without a write.                                        *)
C17_WritesIffNewLevel ==
    ach_event # None =>
        ach_wrote = (IF EvNewLevel THEN ach_done ELSE 0)

C17_Witness ==
    /\ ach_event # None
    /\ EvNewLevel
    /\ Get(ach_event).before = Some([value |-> None])
    /\ EvAfterValue = 3
    /\ ach_wrote = 1
    /\ \E d \in activities : d.data.levelReached = 3

(* C18: however often the same event is delivered, also interleaved, every *)
(* write goes to the one document ACHIEVEMENT_<type>_LEVEL_<level>: no     *)
(* document id occurs twice, and once a delivery has returned the          *)
(* activities collection holds the document ids it held then.              *)
C18_NoDuplicateActivity ==
    (ach_event # None /\ ach_done >= 1) =>
        /\ ActivityIds(activities) = Get(ach_first)
        /\ Cardinality(activities) = Cardinality(ActivityIds(activities))
        /\ EvNewLevel =>
             ActivityIds(activities) =
                {activity_doc_id(Get(EvType),
                                 compute_level(EvAfterValue,
                                               ACHIEVEMENT_THRESHOLDS[Get(EvType)]))}

(* Three deliveries of one event have written, the last at a later time.   *)
C18_Witness ==
    /\ ach_event # None
    /\ ach_wrote = MaxDeliveries
    /\ Cardinality(activities) = 1
    /\ \E d \in activities : d.data.createdAt > 0

(* C22: an invocation writes at most one activity document, the one of    *)
(* the level of the after value: levelReached = compute_level(after value) *)
(* under the id ACHIEVEMENT_<type>_LEVEL_<that level>; a write that jumps   *)
(* over several levels leaves no document for the levels in between.       *)
C22_OnlyTheLevelReached ==
    ach_event # None =>
        /\ ach_wrote <= ach_done
        /\ Cardinality(activities) <= ach_wrote
        /\ \A d \in activities :
              /\ d.data.levelReached =
                    compute_level(EvAfterValue, ACHIEVEMENT_THRESHOLDS[Get(EvType)])
              /\ d.data.achievementType = Get(EvType)
              /\ d.id = <<"ACHIEVEMENT", Get(EvType), "LEVEL", d.data.levelReached>>

(* The value goes from 0 to 5, from level 1 to level 4 over levels 2 and 3.*)
C22_Witness ==
    /\ ach_event # None
    /\ Get(ach_event).before = Some([value |-> Some(0)])
    /\ EvAfterHasValue
    /\ EvAfterValue = 5
    /\ ach_done = 1
    /\ {d.data.levelReached : d \in activities} = {4}

(* C24: no exception leaves on_achievement_progress_written, wherever a    *)
(* delivery raises (reading the event, reading the user's pseudo, writing  *)
(* the activity); a delivery that raises before the activity write leaves  *)
(* the activities collection as it was.                                    *)
C24_NoFaultEscapes ==
    [][/\ ~ach_escaped'
       /\ ach_fault' \in {Some("event"), Some("pseudo")} => activities' = activities]_vars

(* After a delivery that wrote the activity, a delivery raised at the read *)
(* of the pseudo, then one at the read of the event.                       *)
C24_Witness ==
    /\ ach_fault = Some("event")
    /\ ~ach_escaped
    /\ ach_wrote = 1
    /\ ach_done = 3
    /\ Cardinality(activities) = 1

----------------------------------------------------------------------------
(* The two notification functions on their own: each call finds the stored *)
(* token and a transport that answers the successive messaging.send calls  *)
(* as outs says.                                                           *)
AllTransportOutcomes == [1..MAX_RETRY_ATTEMPTS -> SendOutcomes]

NotifyTokens == InitTokens \cup {Some("")}

InitNotify ==
    /\ clock = 0
    /\ plants = <<>>
    /\ streak = None
    /\ token \in NotifyTokens
    /\ pc = "idle"
    /\ run = NoRun
    /\ notify_log = <<>>
    /\ CsQuiet /\ RcQuiet /\ LvQuiet /\ AchQuiet
    /\ nt_call = None

(* The user document after a call that returned res.                       *)
TokenAfter(tok, res) == IF res.deleteToken THEN None ELSE tok

SendWater ==
    /\ \E outs \in AllTransportOutcomes :
         LET res == send_water_notification(token, outs) IN
         /\ nt_call' = Some([fn |-> "send_water_notification",
                             token |-> token, outs |-> outs, res |-> res])
         /\ token' = TokenAfter(token, res)
    /\ UNCHANGED <<clock, plants, streak, pc, run, notify_log>>
    /\ UNCHANGED <<csVars, rcVars, lvVars, achVars>>

SendFriendRequest ==
    /\ \E outs \in AllTransportOutcomes :
         LET res == send_friend_request_notification_impl(token, outs) IN
         /\ nt_call' = Some([fn |-> "send_friend_request_notification_impl",
                             token |-> token, outs |-> outs, res |-> res])
         /\ token' = TokenAfter(token, res)
    /\ UNCHANGED <<clock, plants, streak, pc, run, notify_log>>
    /\ UNCHANGED <<csVars, rcVars, lvVars, achVars>>

NextNotify == SendWater \/ SendFriendRequest

SpecNotify == InitNotify /\ [][NextNotify]_vars

NtAttempts == Get(nt_call).res.attempts
NtOuts == Get(nt_call).outs

NtDecisive ==
    {i \in 1..MAX_RETRY_ATTEMPTS :
        /\ NtOuts[i] # "transient"
        /\ \A j \in 1..(i - 1) : NtOuts[j] = "transient"}

NtUnregistered ==
    /\ get_user_token(Get(nt_call).token) # None
    /\ \E i \in NtDecisive : NtOuts[i] = "unregistered"

(* C20: when an attempt raises UnregisteredError no further attempt is     *)
(* made, fcmToken is removed from the user document and the result is      *)
(* False; in every other outcome the stored token is left as it was.       *)
C20_UnregisteredRemovesToken ==
    nt_call # None =>
        IF NtUnregistered
        THEN /\ NtOuts[NtAttempts] = "unregistered"
             /\ NtAttempts \in NtDecisive
             /\ token = None
             /\ ~Get(nt_call).res.ok
        ELSE token = Get(nt_call).token

C20_Witness ==
    /\ nt_call # None
    /\ Get(nt_call).fn = "send_water_notification"
    /\ Get(nt_call).token = Some("token")
    /\ NtOuts = <<"transient", "unregistered", "ok">>
    /\ NtAttempts = 2
    /\ token = None

(* C23: when an attempt fails with an error that is neither               *)
(* UnregisteredError nor a quota-exceeded or internal error, the function  *)
(* returns False after that attempt, makes no further attempt and leaves   *)
(* the stored fcmToken as it was.                                          *)
NtOtherError ==
    /\ get_user_token(Get(nt_call).token) # None
    /\ \E i \in NtDecisive : NtOuts[i] = "other"

C23_OtherErrorIsDropped ==
    (nt_call # None /\ NtOtherError) =>
        /\ NtOuts[NtAttempts] = "other"
        /\ \A i \in 1..(NtAttempts - 1) : NtOuts[i] = "transient"
        /\ Len(Get(nt_call).res.slept) = NtAttempts - 1
        /\ ~Get(nt_call).res.ok
        /\ token = Get(nt_call).token

C23_Witness ==
    /\ nt_call # None
    /\ Get(nt_call).fn = "send_water_notification"
    /\ Get(nt_call).token = Some("token")
    /\ NtOuts = <<"other", "ok", "ok">>
    /\ NtAttempts = 1
    /\ ~Get(nt_call).res.ok
    /\ token = Some("token")

====
